---- MODULE Spec2Model ----
(***************************************************************************)
(* A model of impeller/renderer/backend/vulkan/render_pass_vk.cc: the      *)
(* construction of the Vulkan render pass and frame buffer from a          *)
(* RenderTarget, the layout transitions, the per-command descriptor        *)
(* binding and draw encoding, and RenderPassVK::OnEncodeCommands.          *)
(***************************************************************************)
EXTENDS Integers, Sequences, FiniteSets, TLC

VARIABLES
  target,              \* RenderPass::render_target_
  commands,            \* RenderPass::commands_
  is_valid,            \* RenderPassVK::is_valid_
  render_pass,         \* RenderPassVK::render_pass_
  encoder_alive,       \* whether encoder_.lock() still yields an encoder
  debug_label,         \* RenderPassVK::debug_label_
  layout,              \* the layout each TextureVK records for its image
  tracked,             \* the encoder's tracked-resource set
  cmdbuf,              \* what has been recorded into the encoder's command buffer
  debug_stack,         \* the encoder's stack of open debug groups
  calls,               \* the calls made on textures, encoder, allocator and device,
                       \* in order, each with its outcome
  resolved,            \* buffers whose GetDeviceBuffer has already succeeded
  pc,                  \* position inside OnEncodeCommands
  result,              \* what the last OnEncodeCommands returned
  entry,               \* cmdbuf length and debug depth when the encode was entered
  pop_marker,          \* whether the pass-level ScopedCleanupClosure is armed
  todo,                \* the SetLayout calls still to come in the current loop
  framebuffer,         \* the frame buffer of the encode
  clear_values,        \* the clear values of the encode
  ci,                  \* index of the command being encoded
  cmd_pop_marker,      \* whether EncodeCommand's ScopedCleanupClosure is armed
  bind                 \* locals of AllocateAndBindDescriptorSets

vars == <<target, commands, is_valid, render_pass, encoder_alive, debug_label,
          layout, tracked, cmdbuf, debug_stack, calls, resolved,
          pc, result, entry, pop_marker, todo, framebuffer, clear_values, ci,
          cmd_pop_marker, bind>>

(***************************************************************************)
(* Bounds of the model.                                                    *)
(***************************************************************************)
MaxBindIndex == 2

(***************************************************************************)
(* Resources.  A resource is a pair <<kind, id>>.                          *)
(***************************************************************************)
NoTexture == <<"none", 0>>
ColorTexture(i) == <<"color", i>>
ResolveTexture(i) == <<"resolve", i>>
DepthTexture == <<"depth", 0>>
StencilTexture == <<"stencil", 0>>

NullHandle == [valid |-> FALSE]

\* VK_ATTACHMENT_UNUSED is ~0U; the model checker's integers are 32-bit signed,
\* where that bit pattern reads -1.  It is never a valid attachment index.
VK_ATTACHMENT_UNUSED == -1
kUnusedAttachmentReference ==
  [attachment |-> VK_ATTACHMENT_UNUSED, layout |-> "eUndefined"]

(***************************************************************************)
(* Iteration over a std::map: its keys in increasing order.                *)
(***************************************************************************)
MinOf(S) == CHOOSE x \in S : \A y \in S : x <= y

RECURSIVE SortedKeysOf(_)
SortedKeysOf(S) ==
  IF S = {} THEN <<>>
  ELSE LET m == MinOf(S) IN <<m>> \o SortedKeysOf(S \ {m})

SortedKeys(map) == SortedKeysOf(DOMAIN map)

(***************************************************************************)
(* RenderTarget.                                                           *)
(***************************************************************************)
NoAttachment == [present |-> FALSE]

ColorAttachment(i, with_resolve) ==
  [texture |-> ColorTexture(i),
   resolve_texture |-> IF with_resolve THEN ResolveTexture(i) ELSE NoTexture,
   clear_color |-> <<"clear_color", i>>,
   load_action |-> "kClear",
   store_action |-> IF with_resolve THEN "kMultisampleResolve" ELSE "kStore"]

ColorMaps ==
  UNION {{[i \in S |-> ColorAttachment(i, r[i])] : r \in [S -> BOOLEAN]} :
         S \in SUBSET (0 .. MaxBindIndex)}

DepthAttachments ==
  {NoAttachment,
   [present |-> TRUE, texture |-> DepthTexture, clear_depth |-> <<"clear_depth", 0>>,
    load_action |-> "kClear", store_action |-> "kDontCare"]}

StencilAttachmentOn(tex) ==
  [present |-> TRUE, texture |-> tex, clear_stencil |-> <<"clear_stencil", 0>>,
   load_action |-> "kClear", store_action |-> "kDontCare"]

TargetSize == [width |-> 4, height |-> 3]
TargetSizes == {TargetSize, [width |-> 2, height |-> 5]}

\* Depth and stencil are two optional slots; a combined depth-stencil image
\* backs both of them with the same texture.
Targets ==
  {[colors |-> c, depth |-> d, stencil |-> s, size |-> z] :
     c \in ColorMaps, d \in DepthAttachments,
     s \in {NoAttachment, StencilAttachmentOn(StencilTexture)}, z \in TargetSizes}
  \cup
  {[colors |-> c, depth |-> d, stencil |-> StencilAttachmentOn(DepthTexture),
    size |-> z] :
     c \in ColorMaps, d \in DepthAttachments \ {NoAttachment}, z \in TargetSizes}

GetColorAttachments(t) == t.colors
GetDepthAttachment(t) == t.depth
GetStencilAttachment(t) == t.stencil
GetRenderTargetSize(t) == t.size
HasColorAttachment(t, i) == i \in DOMAIN t.colors

GetMaxColorAttacmentBindIndex(t) ==
  IF DOMAIN t.colors = {} THEN 0
  ELSE CHOOSE m \in DOMAIN t.colors : \A i \in DOMAIN t.colors : i <= m

(***************************************************************************)
(* CreateAttachmentDescription and CreateVKRenderPass.                     *)
(***************************************************************************)
CreateAttachmentDescription(attachment, kind, resolve_texture) ==
  [texture |-> IF resolve_texture THEN attachment.resolve_texture
               ELSE attachment.texture,
   kind |-> kind,
   resolve |-> resolve_texture,
   load_action |-> attachment.load_action,
   store_action |-> attachment.store_action]

\* The loop over target.GetColorAttachments(): st holds attachments,
\* color_refs and resolve_refs.
RECURSIVE PassColorLoop(_, _, _)
PassColorLoop(colors, keys, st) ==
  IF keys = <<>> THEN st
  ELSE
    LET bind_point == Head(keys)
        color == colors[bind_point]
        st1 == [st EXCEPT
                  !.color_refs[bind_point + 1] =
                     [attachment |-> Len(st.attachments),
                      layout |-> "eColorAttachmentOptimal"],
                  !.attachments =
                     Append(@, CreateAttachmentDescription(color, "kColor", FALSE))]
        st2 == IF color.resolve_texture # NoTexture
               THEN [st1 EXCEPT
                       !.resolve_refs[bind_point + 1] =
                          [attachment |-> Len(st1.attachments),
                           layout |-> "eColorAttachmentOptimal"],
                       !.attachments =
                          Append(@, CreateAttachmentDescription(color, "kColor", TRUE))]
               ELSE st1
    IN PassColorLoop(colors, Tail(keys), st2)

\* Variant: depth and stencil each get a description (two ifs, as in
\* CreateFramebuffer), the reference naming the last one.
PassDepthStencilBoth(t, st) ==
  LET st1 == IF GetDepthAttachment(t).present
             THEN [st EXCEPT
                     !.depth_stencil_ref =
                        [attachment |-> Len(st.attachments),
                         layout |-> "eDepthStencilAttachmentOptimal"],
                     !.attachments =
                        Append(@, CreateAttachmentDescription(
                                    GetDepthAttachment(t), "kDepth", FALSE))]
             ELSE st
  IN IF GetStencilAttachment(t).present
     THEN [st1 EXCEPT
             !.depth_stencil_ref =
                [attachment |-> Len(st1.attachments),
                 layout |-> "eDepthStencilAttachmentOptimal"],
             !.attachments =
                Append(@, CreateAttachmentDescription(
                            GetStencilAttachment(t), "kStencil", FALSE))]
     ELSE st1

PassDepthStencil(t, st) ==
  IF GetDepthAttachment(t).present
  THEN [st EXCEPT
          !.depth_stencil_ref =
             [attachment |-> Len(st.attachments),
              layout |-> "eDepthStencilAttachmentOptimal"],
          !.attachments =
             Append(@, CreateAttachmentDescription(GetDepthAttachment(t), "kDepth", FALSE))]
  ELSE IF GetStencilAttachment(t).present
  THEN [st EXCEPT
          !.depth_stencil_ref =
             [attachment |-> Len(st.attachments),
              layout |-> "eDepthStencilAttachmentOptimal"],
          !.attachments =
             Append(@, CreateAttachmentDescription(GetStencilAttachment(t), "kStencil", FALSE))]
  ELSE st

\* Variant: the reference arrays are sized by the number of color attachments
\* instead of the largest bind index + 1.
RenderPassCreateInfoSizedByCount(t) ==
  LET n == Cardinality(DOMAIN GetColorAttachments(t))
      st0 == [attachments |-> <<>>,
              color_refs |-> [i \in 1 .. n |-> kUnusedAttachmentReference],
              resolve_refs |-> [i \in 1 .. n |-> kUnusedAttachmentReference],
              depth_stencil_ref |-> kUnusedAttachmentReference]
      st == PassDepthStencil(t,
              PassColorLoop(GetColorAttachments(t),
                            SortedKeys(GetColorAttachments(t)), st0))
  IN [valid |-> TRUE,
      attachments |-> st.attachments,
      subpasses |-> <<[pipelineBindPoint |-> "eGraphics",
                       color_refs |-> st.color_refs,
                       resolve_refs |-> st.resolve_refs,
                       depth_stencil_ref |-> st.depth_stencil_ref]>>]

\* The vk::RenderPassCreateInfo handed to the device.  Reference arrays are
\* sequences: slot i of the C++ vector is element i + 1.
RenderPassCreateInfo(t) ==
  LET n == GetMaxColorAttacmentBindIndex(t) + 1
      st0 == [attachments |-> <<>>,
              color_refs |-> [i \in 1 .. n |-> kUnusedAttachmentReference],
              resolve_refs |-> [i \in 1 .. n |-> kUnusedAttachmentReference],
              depth_stencil_ref |-> kUnusedAttachmentReference]
      st == PassDepthStencil(t,
              PassColorLoop(GetColorAttachments(t),
                            SortedKeys(GetColorAttachments(t)), st0))
  IN [valid |-> TRUE,
      attachments |-> st.attachments,
      subpasses |-> <<[pipelineBindPoint |-> "eGraphics",
                       color_refs |-> st.color_refs,
                       resolve_refs |-> st.resolve_refs,
                       depth_stencil_ref |-> st.depth_stencil_ref]>>]

CreateVKRenderPass(device_ok, t) ==
  IF device_ok THEN RenderPassCreateInfo(t) ELSE NullHandle

(***************************************************************************)
(* GetVKClearValues.                                                       *)
(***************************************************************************)
RECURSIVE ClearColorLoop(_, _, _)
ClearColorLoop(colors, keys, clears) ==
  IF keys = <<>> THEN clears
  ELSE
    LET color == colors[Head(keys)]
        c1 == Append(clears, color.clear_color)
        c2 == IF color.resolve_texture # NoTexture
              THEN Append(c1, color.clear_color) ELSE c1
    IN ClearColorLoop(colors, Tail(keys), c2)

\* Variant: the clear value of a color attachment is not repeated for its
\* resolve texture.
GetVKClearValuesWithoutResolve(t) ==
  LET colors == GetColorAttachments(t)
      keys == SortedKeys(colors)
      c0 == [i \in 1 .. Len(keys) |-> colors[keys[i]].clear_color]
      c1 == IF GetDepthAttachment(t).present
            THEN Append(c0, GetDepthAttachment(t).clear_depth) ELSE c0
  IN IF GetStencilAttachment(t).present
     THEN Append(c1, GetStencilAttachment(t).clear_stencil) ELSE c1

GetVKClearValues(t) ==
  LET c0 == ClearColorLoop(GetColorAttachments(t),
                           SortedKeys(GetColorAttachments(t)), <<>>)
      c1 == IF GetDepthAttachment(t).present
            THEN Append(c0, GetDepthAttachment(t).clear_depth) ELSE c0
  IN IF GetStencilAttachment(t).present
     THEN Append(c1, GetStencilAttachment(t).clear_stencil) ELSE c1

(***************************************************************************)
(* CreateFramebuffer.                                                      *)
(***************************************************************************)
GetImageView(texture) == texture

RECURSIVE FramebufferColorLoop(_, _, _)
FramebufferColorLoop(colors, keys, attachments) ==
  IF keys = <<>> THEN attachments
  ELSE
    LET color == colors[Head(keys)]
        a1 == Append(attachments, GetImageView(color.texture))
        a2 == IF color.resolve_texture # NoTexture
              THEN Append(a1, GetImageView(color.resolve_texture)) ELSE a1
    IN FramebufferColorLoop(colors, Tail(keys), a2)

FramebufferCreateInfo(t, pass) ==
  LET a0 == FramebufferColorLoop(GetColorAttachments(t),
                                 SortedKeys(GetColorAttachments(t)), <<>>)
      a1 == IF GetDepthAttachment(t).present
            THEN Append(a0, GetImageView(GetDepthAttachment(t).texture)) ELSE a0
      a2 == IF GetStencilAttachment(t).present
            THEN Append(a1, GetImageView(GetStencilAttachment(t).texture)) ELSE a1
  IN [valid |-> TRUE,
      renderPass |-> pass,
      width |-> GetRenderTargetSize(t).width,
      height |-> GetRenderTargetSize(t).height,
      layers |-> 1,
      attachments |-> a2]

CreateFramebuffer(device_ok, t, pass) ==
  IF device_ok THEN FramebufferCreateInfo(t, pass) ELSE NullHandle

(***************************************************************************)
(* Commands.                                                               *)
(***************************************************************************)
kReservedVertexBufferIndex == 30

NoBuffer == <<"none", 0>>
SampledTexture == <<"sampled", 0>>
TheSampler == <<"sampler", 0>>

View(b, off, len) ==
  [buffer |-> <<"buffer", b>>, range |-> [offset |-> off, length |-> len]]
NoView == [buffer |-> NoBuffer, range |-> [offset |-> 0, length |-> 0]]

VertexView == View(1, 16, 64)
VertexUniformView == View(2, 0, 16)
FragmentUniformView == View(3, 32, 16)
IndexView == View(4, 8, 12)

EmptyMap == <<>>

\* One binding table (struct Bindings).  uniforms and sampled_images give the
\* descriptor slot of each bound buffer and of each bound sampler or texture.
Bindings(bufs, uniform_slot, texs, samps) ==
  [buffers |-> bufs,
   uniforms |-> [k \in DOMAIN bufs \ {kReservedVertexBufferIndex} |->
                   [binding |-> uniform_slot]],
   textures |-> texs,
   samplers |-> samps,
   sampled_images |-> [k \in DOMAIN texs \cup DOMAIN samps |-> [binding |-> 2]]]

VertexData == kReservedVertexBufferIndex :> VertexView

VertexBindingsBase == Bindings(VertexData @@ (0 :> VertexUniformView), 0, EmptyMap, EmptyMap)

VertexBindingsSet ==
  {VertexBindingsBase,
   Bindings(VertexData, 0, EmptyMap, EmptyMap),
   Bindings(VertexData, 0, 0 :> SampledTexture, 0 :> TheSampler),
   Bindings(VertexData, 0, EmptyMap, 0 :> TheSampler),
   Bindings(EmptyMap, 0, EmptyMap, EmptyMap)}

FragmentBindingsBase ==
  Bindings(1 :> FragmentUniformView, 1, 0 :> SampledTexture, 0 :> TheSampler)

FragmentBindingsSet ==
  {FragmentBindingsBase,
   Bindings(EmptyMap, 1, EmptyMap, EmptyMap),
   Bindings(1 :> FragmentUniformView, 1, EmptyMap, EmptyMap),
   Bindings(1 :> FragmentUniformView, 0, 0 :> SampledTexture, 0 :> TheSampler),
   Bindings(1 :> FragmentUniformView, 1, EmptyMap, 0 :> TheSampler),
   Bindings(1 :> FragmentUniformView, 1, 0 :> SampledTexture, EmptyMap),
   Bindings(1 :> FragmentUniformView, 1, 0 :> ColorTexture(0), 0 :> TheSampler)}

NoRect == [present |-> FALSE]
SomeRect ==
  [present |-> TRUE,
   rect |-> [origin |-> [x |-> 1, y |-> 1], size |-> [width |-> 2, height |-> 2]]]

BaseCommand ==
  [pipeline |-> TRUE,
   label |-> "draw",
   index_count |-> 3,
   instance_count |-> 1,
   base_vertex |-> 2,
   index_type |-> "k16bit",
   stencil_reference |-> 5,
   vertex_bindings |-> VertexBindingsBase,
   fragment_bindings |-> FragmentBindingsBase,
   index_buffer |-> IndexView,
   viewport |-> NoRect,
   scissor |-> NoRect]

CommandFields == DOMAIN BaseCommand

AllCommands ==
  [pipeline : BOOLEAN,
   label : {"draw", ""},
   index_count : {3, 0},
   instance_count : {1, 0},
   base_vertex : {2},
   index_type : {"k16bit"},
   stencil_reference : {5},
   vertex_bindings : VertexBindingsSet,
   fragment_bindings : FragmentBindingsSet,
   index_buffer : {IndexView, NoView},
   viewport : {NoRect, SomeRect},
   scissor : {NoRect, SomeRect}]

Deviations(c) == {f \in CommandFields : c[f] # BaseCommand[f]}

\* The commands that differ from BaseCommand in at most one field.
CommandSet == {c \in AllCommands : Cardinality(Deviations(c)) <= 1}

CoreCommands ==
  {c \in CommandSet :
     \/ c = BaseCommand
     \/ ~c.pipeline
     \/ c.index_count = 0
     \/ c.label = ""
     \/ c.fragment_bindings = Bindings(1 :> FragmentUniformView, 1, EmptyMap, 0 :> TheSampler)}

MaxCommands == 2

SeqsUpTo(S, n) == UNION {[1 .. k -> S] : k \in 0 .. n}

\* Command lists of at most MaxCommands commands, at most one of which is
\* not a core command.
CommandLists ==
  {l \in SeqsUpTo(CommandSet, MaxCommands) :
     Cardinality({i \in DOMAIN l : l[i] \notin CoreCommands}) <= 1}

BaseTarget ==
  [colors |-> 0 :> ColorAttachment(0, TRUE),
   depth |-> [present |-> TRUE, texture |-> DepthTexture,
              clear_depth |-> <<"clear_depth", 0>>,
              load_action |-> "kClear", store_action |-> "kDontCare"],
   stencil |-> NoAttachment,
   size |-> TargetSize]

\* What is encoded: every command list against the base target, and every
\* target against the empty list and a single base command.
EncodeInputs ==
  {[target |-> BaseTarget, commands |-> l] : l \in CommandLists}
  \cup
  {[target |-> t, commands |-> l] : t \in Targets, l \in {<<>>, <<BaseCommand>>}}

AllTextures ==
  {ColorTexture(i) : i \in 0 .. MaxBindIndex} \cup
  {ResolveTexture(i) : i \in 0 .. MaxBindIndex} \cup
  {DepthTexture, StencilTexture, SampledTexture}

(***************************************************************************)
(* The collaborators: TextureVK::SetLayout, CommandEncoderVK::Track and    *)
(* the debug-group stack.                                                  *)
(***************************************************************************)
Front(s) == SubSeq(s, 1, Len(s) - 1)

\* SetLayout records a barrier and updates the recorded layout, or fails
\* without changing anything.
LayoutAfterSetLayout(l, tr, ok) ==
  IF ok THEN [l EXCEPT ![tr.texture] = tr.new_layout] ELSE l

RecordedAfterSetLayout(cb, tr, ok) ==
  IF ok
  THEN Append(cb, [op |-> "pipelineBarrier", texture |-> tr.texture,
                   new_layout |-> tr.new_layout])
  ELSE cb

SetLayoutCall(tr, ok) ==
  [call |-> "SetLayout", texture |-> tr.texture, new_layout |-> tr.new_layout,
   ok |-> ok]

TrackCall(resource, ok) == [call |-> "Track", resource |-> resource, ok |-> ok]

GetDeviceBufferCall(buffer, ok) ==
  [call |-> "GetDeviceBuffer", buffer |-> buffer, ok |-> ok]

PushDebugGroupOp(label) == [op |-> "pushDebugGroup", label |-> label]
PopDebugGroupOp == [op |-> "popDebugGroup"]
EndRenderPassOp == [op |-> "endRenderPass"]

FramebufferResource == <<"framebuffer", 0>>
RenderPassResource == <<"render_pass", 0>>

(***************************************************************************)
(* The layout transitions of one encode, in the order of the calls.        *)
(***************************************************************************)
RECURSIVE BindingsTransitions(_, _)
BindingsTransitions(bindings, keys) ==
  IF keys = <<>> THEN <<>>
  ELSE <<[texture |-> bindings.textures[Head(keys)],
          new_layout |-> "eShaderReadOnlyOptimal"]>>
       \o BindingsTransitions(bindings, Tail(keys))

CommandTransitions(command) ==
  BindingsTransitions(command.vertex_bindings,
                      SortedKeys(command.vertex_bindings.textures))
  \o BindingsTransitions(command.fragment_bindings,
                         SortedKeys(command.fragment_bindings.textures))

RECURSIVE UpdateBindingLayoutsCalls(_)
UpdateBindingLayoutsCalls(cmds) ==
  IF cmds = <<>> THEN <<>>
  ELSE CommandTransitions(Head(cmds)) \o UpdateBindingLayoutsCalls(Tail(cmds))

RECURSIVE ColorTransitions(_, _)
ColorTransitions(colors, keys) ==
  IF keys = <<>> THEN <<>>
  ELSE
    LET color == colors[Head(keys)]
    IN <<[texture |-> color.texture, new_layout |-> "eColorAttachmentOptimal"]>>
       \o (IF color.resolve_texture # NoTexture
           THEN <<[texture |-> color.resolve_texture,
                   new_layout |-> "eColorAttachmentOptimal"]>>
           ELSE <<>>)
       \o ColorTransitions(colors, Tail(keys))

\* Variant: the stencil texture is not transitioned.
ConfigureAttachmentsCallsWithoutStencil(t) ==
  ColorTransitions(GetColorAttachments(t), SortedKeys(GetColorAttachments(t)))
  \o (IF GetDepthAttachment(t).present
      THEN <<[texture |-> GetDepthAttachment(t).texture,
              new_layout |-> "eDepthAttachmentOptimal"]>>
      ELSE <<>>)

\* Variant: with a stencil attachment present, the depth texture is asked to
\* take the stencil layout as well.
ConfigureAttachmentsCallsCombined(t) ==
  ColorTransitions(GetColorAttachments(t), SortedKeys(GetColorAttachments(t)))
  \o (IF GetDepthAttachment(t).present
      THEN <<[texture |-> GetDepthAttachment(t).texture,
              new_layout |-> "eDepthAttachmentOptimal"]>>
           \o (IF GetStencilAttachment(t).present
               THEN <<[texture |-> GetDepthAttachment(t).texture,
                       new_layout |-> "eStencilAttachmentOptimal"]>>
               ELSE <<>>)
      ELSE <<>>)
  \o (IF GetStencilAttachment(t).present
      THEN <<[texture |-> GetStencilAttachment(t).texture,
              new_layout |-> "eStencilAttachmentOptimal"]>>
      ELSE <<>>)

\* Variant: the textures of the binding tables are transitioned after the
\* attachments instead of before.
ConfigureAttachmentsCallsThenBindings(t) ==
  ColorTransitions(GetColorAttachments(t), SortedKeys(GetColorAttachments(t)))
  \o (IF GetDepthAttachment(t).present
      THEN <<[texture |-> GetDepthAttachment(t).texture,
              new_layout |-> "eDepthAttachmentOptimal"]>>
      ELSE <<>>)
  \o (IF GetStencilAttachment(t).present
      THEN <<[texture |-> GetStencilAttachment(t).texture,
              new_layout |-> "eStencilAttachmentOptimal"]>>
      ELSE <<>>)
  \o UpdateBindingLayoutsCalls(commands)

ConfigureAttachmentsCalls(t) ==
  ColorTransitions(GetColorAttachments(t), SortedKeys(GetColorAttachments(t)))
  \o (IF GetDepthAttachment(t).present
      THEN <<[texture |-> GetDepthAttachment(t).texture,
              new_layout |-> "eDepthAttachmentOptimal"]>>
      ELSE <<>>)
  \o (IF GetStencilAttachment(t).present
      THEN <<[texture |-> GetStencilAttachment(t).texture,
              new_layout |-> "eStencilAttachmentOptimal"]>>
      ELSE <<>>)

(***************************************************************************)
(* SetViewportAndScissor.                                                  *)
(***************************************************************************)
MakeSize(size) == [origin |-> [x |-> 0, y |-> 0], size |-> size]

\* Variant: the viewport is not flipped.
SetViewportAndScissorUnflipped(command, target_size) ==
  LET vp == IF command.viewport.present THEN command.viewport.rect
            ELSE MakeSize(target_size)
      sc == IF command.scissor.present THEN command.scissor.rect
            ELSE MakeSize(target_size)
  IN <<[op |-> "setViewport",
        x |-> 0,
        y |-> 0,
        width |-> vp.size.width,
        height |-> vp.size.height,
        minDepth |-> 0,
        maxDepth |-> 1],
       [op |-> "setScissor",
        offset |-> [x |-> sc.origin.x, y |-> sc.origin.y],
        extent |-> [width |-> sc.size.width, height |-> sc.size.height]]>>

SetViewportAndScissor(command, target_size) ==
  LET vp == IF command.viewport.present THEN command.viewport.rect
            ELSE MakeSize(target_size)
      sc == IF command.scissor.present THEN command.scissor.rect
            ELSE MakeSize(target_size)
  IN <<[op |-> "setViewport",
        x |-> 0,
        y |-> vp.size.height,
        width |-> vp.size.width,
        height |-> 0 - vp.size.height,
        minDepth |-> 0,
        maxDepth |-> 1],
       [op |-> "setScissor",
        offset |-> [x |-> sc.origin.x, y |-> sc.origin.y],
        extent |-> [width |-> sc.size.width, height |-> sc.size.height]]>>

GetVertexBuffer(command) ==
  IF kReservedVertexBufferIndex \in DOMAIN command.vertex_bindings.buffers
  THEN command.vertex_bindings.buffers[kReservedVertexBufferIndex]
  ELSE NoView

(***************************************************************************)
(* The bindings AllocateAndBindDescriptorSets visits, in order:            *)
(* bind_buffers(vertex), bind_buffers(fragment), bind_images(fragment).    *)
(***************************************************************************)
RECURSIVE BindItems(_, _, _)
BindItems(kind, stage, keys) ==
  IF keys = <<>> THEN <<>>
  ELSE <<[kind |-> kind, stage |-> stage, index |-> Head(keys)]>>
       \o BindItems(kind, stage, Tail(keys))

BindWork(command) ==
  BindItems("buffer", "vertex", SortedKeys(command.vertex_bindings.buffers))
  \o BindItems("buffer", "fragment", SortedKeys(command.fragment_bindings.buffers))
  \o BindItems("image", "fragment", SortedKeys(command.fragment_bindings.samplers))

StageBindings(command, stage) ==
  IF stage = "vertex" THEN command.vertex_bindings ELSE command.fragment_bindings

\* A write points into the buffers / images map: the device reads the entry
\* the map holds at its slot when updateDescriptorSets is called.
SubmittedWrites(b) ==
  [i \in 1 .. Len(b.writes) |->
     [dstSet |-> b.writes[i].dstSet,
      dstBinding |-> b.writes[i].dstBinding,
      descriptorType |-> b.writes[i].descriptorType,
      source |-> b.writes[i].source,
      info |-> IF b.writes[i].descriptorType = "eUniformBuffer"
               THEN b.buffers[b.writes[i].dstBinding]
               ELSE b.images[b.writes[i].dstBinding]]]

NoBind == [desc_set |-> <<"none", 0>>, buffers |-> EmptyMap, images |-> EmptyMap,
           writes |-> <<>>, work |-> <<>>]
NoEntry == [len |-> 0, depth |-> 0, calls |-> 0]

(***************************************************************************)
(* RenderPassVK: construction.                                             *)
(***************************************************************************)
\* An encode that passes its checks is started only while at most this much
\* has been recorded and requested before it (what bounds the histories).
MaxRecorded == 0

\* The constructor: is_valid_ is set only if the device created the pass.
RenderPassVK(device_ok, t) ==
  LET pass == CreateVKRenderPass(device_ok, t)
  IN [render_pass |-> pass, is_valid |-> pass.valid]

IsValid == is_valid

Init ==
  \E in \in EncodeInputs, device_ok \in BOOLEAN :
    /\ target = in.target
    /\ commands = in.commands
    /\ render_pass = RenderPassVK(device_ok, in.target).render_pass
    /\ is_valid = RenderPassVK(device_ok, in.target).is_valid
    /\ encoder_alive = TRUE
    /\ debug_label = ""
    /\ layout = [t \in AllTextures |-> "eUndefined"]
    /\ tracked = {}
    /\ cmdbuf = <<>>
    /\ debug_stack = <<>>
    /\ calls = <<>>
    /\ resolved = {}
    /\ pc = "idle"
    /\ result = FALSE
    /\ entry = NoEntry
    /\ pop_marker = FALSE
    /\ todo = <<>>
    /\ framebuffer = NullHandle
    /\ clear_values = <<>>
    /\ ci = 0
    /\ cmd_pop_marker = FALSE
    /\ bind = NoBind

Idle == pc \in {"idle", "done"}

\* OnSetLabel, called before the pass is encoded: nothing happens if the context
\* is gone; render_pass_ is dereferenced without a check, which is a null
\* dereference on an invalid pass.
OnSetLabel ==
  /\ pc = "idle"
  /\ \E label \in {"", "pass"}, context_alive \in BOOLEAN :
       IF ~context_alive THEN UNCHANGED <<debug_label, pc>>
       ELSE IF render_pass.valid
       THEN debug_label' = label /\ UNCHANGED pc
       ELSE pc' = "crashed" /\ UNCHANGED debug_label
  /\ UNCHANGED <<target, commands, is_valid, render_pass, encoder_alive, layout,
                 tracked, cmdbuf, debug_stack, calls, resolved,
                 result, entry, pop_marker, todo, framebuffer, clear_values, ci,
                 cmd_pop_marker, bind>>

\* The owner of the command encoder drops it: encoder_ is a weak reference.
EncoderDestroyed ==
  /\ Idle
  /\ encoder_alive
  /\ encoder_alive' = FALSE
  /\ UNCHANGED <<target, commands, is_valid, render_pass, debug_label, layout,
                 tracked, cmdbuf, debug_stack, calls, resolved,
                 pc, result, entry, pop_marker, todo, framebuffer, clear_values, ci,
                 cmd_pop_marker, bind>>

(***************************************************************************)
(* RenderPassVK::OnEncodeCommands, step by step.                           *)
(***************************************************************************)
\* Variant: the pass-level debug group is popped only on a true return.
ReturnPoppingOnSuccess(r, cb, ds) ==
  /\ cmdbuf' = IF pop_marker /\ r THEN Append(cb, PopDebugGroupOp) ELSE cb
  /\ debug_stack' = IF pop_marker /\ r THEN Front(ds) ELSE ds
  /\ pop_marker' = FALSE
  /\ result' = r
  /\ pc' = "done"

\* return from OnEncodeCommands with cb recorded and ds the debug stack: the
\* pass-level cleanup closure pops the debug group if it is still armed.
Return(r, cb, ds) ==
  /\ cmdbuf' = IF pop_marker THEN Append(cb, PopDebugGroupOp) ELSE cb
  /\ debug_stack' = IF pop_marker THEN Front(ds) ELSE ds
  /\ pop_marker' = FALSE
  /\ result' = r
  /\ pc' = "done"

\* Variant: a failed command returns without ending the render pass.
ReturnFromLoopWithoutEndPass(r, cb, ds) ==
  LET cb1 == IF cmd_pop_marker THEN Append(cb, PopDebugGroupOp) ELSE cb
      ds1 == IF cmd_pop_marker THEN Front(ds) ELSE ds
  IN /\ Return(r, cb1, ds1)
     /\ cmd_pop_marker' = FALSE

\* return false from inside the command loop: EncodeCommand's cleanup closure
\* runs first, then end_render_pass, then the pass-level closure.
ReturnFromLoop(r, cb, ds) ==
  LET cb1 == IF cmd_pop_marker THEN Append(cb, PopDebugGroupOp) ELSE cb
      ds1 == IF cmd_pop_marker THEN Front(ds) ELSE ds
  IN /\ Return(r, Append(cb1, EndRenderPassOp), ds1)
     /\ cmd_pop_marker' = FALSE

\* Variant: the encoder is not checked.
EncodePreconditionsWithoutEncoder ==
  /\ IsValid
  /\ HasColorAttachment(target, 0)

EncodePreconditions ==
  /\ IsValid
  /\ HasColorAttachment(target, 0)
  /\ encoder_alive

\* Lines 558-587: the three checks, then the pass-level debug group.
OnEncodeCommands ==
  /\ Idle
  /\ entry' = [len |-> Len(cmdbuf), depth |-> Len(debug_stack), calls |-> Len(calls)]
  /\ IF ~EncodePreconditions
     THEN /\ result' = FALSE
          /\ pc' = "done"
          /\ UNCHANGED <<cmdbuf, debug_stack, pop_marker, todo>>
     ELSE /\ Len(cmdbuf) + Len(calls) <= MaxRecorded
          /\ IF debug_label # ""
             THEN /\ cmdbuf' = Append(cmdbuf, PushDebugGroupOp(debug_label))
                  /\ debug_stack' = Append(debug_stack, debug_label)
                  /\ pop_marker' = TRUE
             ELSE /\ pop_marker' = FALSE
                  /\ UNCHANGED <<cmdbuf, debug_stack>>
          /\ todo' = UpdateBindingLayoutsCalls(commands)
          /\ pc' = "UpdateBindingLayouts"
          /\ UNCHANGED result
  /\ UNCHANGED <<target, commands, is_valid, render_pass, encoder_alive, debug_label,
                 layout, tracked, calls, resolved, framebuffer,
                 clear_values, ci, cmd_pop_marker, bind>>

\* Variant: the result of UpdateBindingLayouts is ignored.
UpdateBindingLayoutsStepIgnoringFailure ==
  /\ pc = "UpdateBindingLayouts"
  /\ IF todo = <<>>
     THEN /\ pc' = "ConfigureAttachments"
          /\ todo' = ConfigureAttachmentsCalls(target)
          /\ UNCHANGED <<layout, cmdbuf, calls>>
     ELSE \E ok \in BOOLEAN :
            /\ calls' = Append(calls, SetLayoutCall(Head(todo), ok))
            /\ layout' = LayoutAfterSetLayout(layout, Head(todo), ok)
            /\ cmdbuf' = RecordedAfterSetLayout(cmdbuf, Head(todo), ok)
            /\ todo' = IF ok THEN Tail(todo) ELSE <<>>
            /\ UNCHANGED pc
  /\ UNCHANGED <<target, commands, is_valid, render_pass, encoder_alive, debug_label,
                 tracked, resolved, entry, framebuffer, clear_values,
                 ci, cmd_pop_marker, bind, result, debug_stack, pop_marker>>

\* Lines 589-591 with UpdateBindingLayouts (291-326): one SetLayout per step.
UpdateBindingLayoutsStep ==
  /\ pc = "UpdateBindingLayouts"
  /\ IF todo = <<>>
     THEN /\ pc' = "ConfigureAttachments"
          /\ todo' = ConfigureAttachmentsCalls(target)
          /\ UNCHANGED <<layout, cmdbuf, debug_stack, calls, result, pop_marker>>
     ELSE \E ok \in BOOLEAN :
            LET tr == Head(todo)
                cb == RecordedAfterSetLayout(cmdbuf, tr, ok)
            IN /\ calls' = Append(calls, SetLayoutCall(tr, ok))
               /\ layout' = LayoutAfterSetLayout(layout, tr, ok)
               /\ IF ok
                  THEN /\ cmdbuf' = cb
                       /\ todo' = Tail(todo)
                       /\ UNCHANGED <<pc, result, debug_stack, pop_marker>>
                  ELSE /\ Return(FALSE, cb, debug_stack)
                       /\ UNCHANGED todo
  /\ UNCHANGED <<target, commands, is_valid, render_pass, encoder_alive, debug_label,
                 tracked, resolved, entry, framebuffer, clear_values,
                 ci, cmd_pop_marker, bind>>

\* Lines 593-603 with ConfigureAttachments (231-289): one SetLayout and one
\* Track per step.
ConfigureAttachmentsStep ==
  /\ pc = "ConfigureAttachments"
  /\ IF todo = <<>>
     THEN /\ IF commands = <<>>
             THEN Return(TRUE, cmdbuf, debug_stack)
             ELSE /\ pc' = "CreateFramebuffer"
                  /\ UNCHANGED <<cmdbuf, debug_stack, result, pop_marker>>
          /\ UNCHANGED <<layout, calls, tracked, todo>>
     ELSE \E set_ok, track_ok \in BOOLEAN :
            LET tr == Head(todo)
                cb == RecordedAfterSetLayout(cmdbuf, tr, set_ok)
            IN /\ calls' = Append(calls, SetLayoutCall(tr, set_ok))
                           \o (IF set_ok THEN <<TrackCall(tr.texture, track_ok)>>
                               ELSE <<>>)
               /\ layout' = LayoutAfterSetLayout(layout, tr, set_ok)
               /\ IF set_ok /\ track_ok
                  THEN /\ tracked' = tracked \cup {tr.texture}
                       /\ cmdbuf' = cb
                       /\ todo' = Tail(todo)
                       /\ UNCHANGED <<pc, result, debug_stack, pop_marker>>
                  ELSE /\ Return(FALSE, cb, debug_stack)
                       /\ UNCHANGED <<tracked, todo>>
  /\ UNCHANGED <<target, commands, is_valid, render_pass, encoder_alive, debug_label,
                 resolved, entry, framebuffer, clear_values, ci,
                 cmd_pop_marker, bind>>

\* Lines 607-611: the frame buffer is created and tracked with the pass.  A
\* null frame buffer is not checked: Track ignores a null object.
CreateFramebufferStep ==
  /\ pc = "CreateFramebuffer"
  /\ \E device_ok, track_fb, track_pass \in BOOLEAN :
       LET fb == CreateFramebuffer(device_ok, target, render_pass)
           with_fb == IF track_fb /\ fb.valid
                      THEN tracked \cup {FramebufferResource} ELSE tracked
       IN /\ framebuffer' = fb
          /\ calls' =
               Append(calls, [call |-> "createFramebufferUnique", ok |-> device_ok])
               \o <<TrackCall(FramebufferResource, track_fb)>>
               \o (IF track_fb THEN <<TrackCall(RenderPassResource, track_pass)>>
                   ELSE <<>>)
          /\ IF track_fb /\ track_pass
             THEN /\ tracked' = with_fb \cup {RenderPassResource}
                  /\ pc' = "beginRenderPass"
                  /\ UNCHANGED <<cmdbuf, debug_stack, result, pop_marker>>
             ELSE /\ tracked' = with_fb
                  /\ Return(FALSE, cmdbuf, debug_stack)
  /\ UNCHANGED <<target, commands, is_valid, render_pass, encoder_alive, debug_label,
                 layout, resolved, entry, todo, clear_values, ci,
                 cmd_pop_marker, bind>>

BeginRenderPassOp(pass, fb, size, clears) ==
  [op |-> "beginRenderPass",
   renderPass |-> pass,
   framebuffer |-> fb,
   extent |-> [width |-> size.width, height |-> size.height],
   clear_values |-> clears,
   contents |-> "eInline"]

\* Lines 613-628.  *framebuffer on a null frame buffer is undefined: the
\* process stops, or the pass begins on the null handle.
BeginRenderPassStep ==
  /\ pc = "beginRenderPass"
  /\ clear_values' = GetVKClearValues(target)
  /\ \E crash \in (IF framebuffer.valid THEN {FALSE} ELSE BOOLEAN) :
       IF crash
       THEN pc' = "crashed" /\ UNCHANGED <<cmdbuf, ci>>
       ELSE /\ cmdbuf' = Append(cmdbuf,
                            BeginRenderPassOp(render_pass, framebuffer,
                                              GetRenderTargetSize(target),
                                              GetVKClearValues(target)))
            /\ ci' = 1
            /\ pc' = "commands"
  /\ UNCHANGED <<target, commands, is_valid, render_pass, encoder_alive, debug_label,
                 layout, tracked, debug_stack, calls, resolved,
                 result, entry, pop_marker, todo, framebuffer, cmd_pop_marker, bind>>

\* Variant: EncodeCommand does not return early on a zero index or instance
\* count.
CommandStepWithoutCountCheck ==
  /\ pc = "commands"
  /\ IF ci > Len(commands)
     THEN /\ Return(TRUE, Append(cmdbuf, EndRenderPassOp), debug_stack)
          /\ UNCHANGED <<ci, cmd_pop_marker>>
     ELSE LET command == commands[ci]
          IN IF ~command.pipeline
             THEN /\ ci' = ci + 1
                  /\ UNCHANGED <<cmdbuf, debug_stack, pc, result, pop_marker,
                                 cmd_pop_marker>>
             ELSE /\ IF command.label # ""
                     THEN /\ cmdbuf' = Append(cmdbuf, PushDebugGroupOp(command.label))
                          /\ debug_stack' = Append(debug_stack, command.label)
                          /\ cmd_pop_marker' = TRUE
                     ELSE /\ cmd_pop_marker' = FALSE
                          /\ UNCHANGED <<cmdbuf, debug_stack>>
                  /\ pc' = "AllocateDescriptorSet"
                  /\ UNCHANGED <<ci, result, pop_marker>>
  /\ UNCHANGED <<target, commands, is_valid, render_pass, encoder_alive, debug_label,
                 layout, tracked, calls, resolved, entry, todo,
                 framebuffer, clear_values, bind>>

\* Lines 630-639 and the head of EncodeCommand (474-490).
CommandStep ==
  /\ pc = "commands"
  /\ IF ci > Len(commands)
     THEN /\ Return(TRUE, Append(cmdbuf, EndRenderPassOp), debug_stack)
          /\ UNCHANGED <<ci, cmd_pop_marker>>
     ELSE LET command == commands[ci]
          IN IF ~command.pipeline
             THEN /\ ci' = ci + 1
                  /\ UNCHANGED <<cmdbuf, debug_stack, pc, result, pop_marker,
                                 cmd_pop_marker>>
             ELSE IF command.index_count = 0 \/ command.instance_count = 0
             THEN /\ ci' = ci + 1
                  /\ UNCHANGED <<cmdbuf, debug_stack, pc, result, pop_marker,
                                 cmd_pop_marker>>
             ELSE /\ IF command.label # ""
                     THEN /\ cmdbuf' = Append(cmdbuf, PushDebugGroupOp(command.label))
                          /\ debug_stack' = Append(debug_stack, command.label)
                          /\ cmd_pop_marker' = TRUE
                     ELSE /\ cmd_pop_marker' = FALSE
                          /\ UNCHANGED <<cmdbuf, debug_stack>>
                  /\ pc' = "AllocateDescriptorSet"
                  /\ UNCHANGED <<ci, result, pop_marker>>
  /\ UNCHANGED <<target, commands, is_valid, render_pass, encoder_alive, debug_label,
                 layout, tracked, calls, resolved, entry, todo,
                 framebuffer, clear_values, bind>>

(***************************************************************************)
(* AllocateAndBindDescriptorSets.                                          *)
(***************************************************************************)
\* Whether GetDeviceBuffer may fail for a buffer: not once it has succeeded.
DeviceBufferOutcomes(buffer) == IF buffer \in resolved THEN {TRUE} ELSE BOOLEAN

\* Lines 332-342.
AllocateDescriptorSet ==
  /\ pc = "AllocateDescriptorSet"
  /\ \E ok \in BOOLEAN :
       /\ calls' =
            Append(calls, [call |-> "allocateDescriptorSets", ok |-> ok])
       /\ IF ok
          THEN /\ bind' = [desc_set |-> <<"descriptor_set", ci>>,
                           buffers |-> EmptyMap,
                           images |-> EmptyMap,
                           writes |-> <<>>,
                           work |-> BindWork(commands[ci])]
               /\ pc' = "bind"
               /\ UNCHANGED <<cmdbuf, debug_stack, result, pop_marker, cmd_pop_marker>>
          ELSE /\ ReturnFromLoop(FALSE, cmdbuf, debug_stack)
               /\ UNCHANGED bind
  /\ UNCHANGED <<target, commands, is_valid, render_pass, encoder_alive, debug_label,
                 layout, tracked, resolved, entry, todo, framebuffer,
                 clear_values, ci>>

\* One iteration of bind_buffers (389-429).
BindBuffer(item) ==
  LET bindings == StageBindings(commands[ci], item.stage)
      view == bindings.buffers[item.index]
      buffer == view.buffer
      reserved == item.index = kReservedVertexBufferIndex
  IN \E device_buffer_ok \in DeviceBufferOutcomes(buffer), track_ok \in BOOLEAN :
       /\ calls' = Append(calls, GetDeviceBufferCall(buffer, device_buffer_ok))
                   \o (IF device_buffer_ok /\ ~reserved
                       THEN <<TrackCall(buffer, track_ok)>> ELSE <<>>)
       /\ resolved' = IF device_buffer_ok THEN resolved \cup {buffer} ELSE resolved
       /\ IF ~device_buffer_ok
          THEN /\ ReturnFromLoop(FALSE, cmdbuf, debug_stack)
               /\ UNCHANGED <<tracked, bind>>
          ELSE IF reserved
          THEN /\ bind' = [bind EXCEPT !.work = Tail(@)]
               /\ UNCHANGED <<tracked, cmdbuf, debug_stack, result, pc,
                              pop_marker, cmd_pop_marker>>
          ELSE IF ~track_ok
          THEN /\ ReturnFromLoop(FALSE, cmdbuf, debug_stack)
               /\ UNCHANGED <<tracked, bind>>
          ELSE LET uniform == bindings.uniforms[item.index]
                   buffer_info == [buffer |-> buffer,
                                   offset |-> view.range.offset,
                                   range |-> view.range.length]
                   write_set == [dstSet |-> bind.desc_set,
                                 dstBinding |-> uniform.binding,
                                 descriptorCount |-> 1,
                                 descriptorType |-> "eUniformBuffer",
                                 source |-> item]
               IN /\ tracked' = tracked \cup {buffer}
                  /\ bind' = [bind EXCEPT
                                !.buffers = (uniform.binding :> buffer_info) @@ @,
                                !.writes = Append(@, write_set),
                                !.work = Tail(@)]
                  /\ UNCHANGED <<cmdbuf, debug_stack, result, pc, pop_marker,
                                 cmd_pop_marker>>

\* One iteration of bind_images once the texture is found (354-377).
BindSampledImage(item) ==
  LET bindings == StageBindings(commands[ci], item.stage)
  IN \E track_texture, track_sampler \in BOOLEAN :
            LET texture == bindings.textures[item.index]
                sampler == bindings.samplers[item.index]
                slot == bindings.sampled_images[item.index]
                image_info == [imageLayout |-> "eShaderReadOnlyOptimal",
                               sampler |-> sampler,
                               imageView |-> GetImageView(texture)]
                write_set == [dstSet |-> bind.desc_set,
                              dstBinding |-> slot.binding,
                              descriptorCount |-> 1,
                              descriptorType |-> "eCombinedImageSampler",
                              source |-> item]
            IN /\ UNCHANGED resolved
               /\ calls' = Append(calls, TrackCall(texture, track_texture))
                           \o (IF track_texture
                               THEN <<TrackCall(sampler, track_sampler)>> ELSE <<>>)
               /\ IF ~track_texture
                  THEN /\ ReturnFromLoop(FALSE, cmdbuf, debug_stack)
                       /\ UNCHANGED <<tracked, bind>>
                  ELSE IF ~track_sampler
                  THEN /\ tracked' = tracked \cup {texture}
                       /\ ReturnFromLoop(FALSE, cmdbuf, debug_stack)
                       /\ UNCHANGED bind
                  ELSE /\ tracked' = tracked \cup {texture, sampler}
                       /\ bind' = [bind EXCEPT
                                     !.images = (slot.binding :> image_info) @@ @,
                                     !.writes = Append(@, write_set),
                                     !.work = Tail(@)]
                       /\ UNCHANGED <<cmdbuf, debug_stack, result, pc, pop_marker,
                                      cmd_pop_marker>>

\* Variant: when the texture of a sampler is missing, the writes gathered so
\* far are handed to the device before the failure is returned.
BindImageSubmittingOnFailure(item) ==
  LET bindings == StageBindings(commands[ci], item.stage)
  IN IF item.index \notin DOMAIN bindings.textures
     THEN /\ calls' = Append(calls, [call |-> "updateDescriptorSets",
                                     command |-> ci,
                                     writes |-> SubmittedWrites(bind)])
          /\ ReturnFromLoop(FALSE, cmdbuf, debug_stack)
          /\ UNCHANGED <<resolved, tracked, bind>>
     ELSE BindSampledImage(item)

\* One iteration of bind_images (349-378).
BindImage(item) ==
  LET bindings == StageBindings(commands[ci], item.stage)
  IN IF item.index \notin DOMAIN bindings.textures
     THEN /\ ReturnFromLoop(FALSE, cmdbuf, debug_stack)
          /\ UNCHANGED <<calls, resolved, tracked, bind>>
     ELSE BindSampledImage(item)

BindResource ==
  /\ pc = "bind"
  /\ bind.work # <<>>
  /\ IF Head(bind.work).kind = "buffer"
     THEN BindBuffer(Head(bind.work))
     ELSE BindImage(Head(bind.work))
  /\ UNCHANGED <<target, commands, is_valid, render_pass, encoder_alive, debug_label,
                 layout, entry, todo, framebuffer,
                 clear_values, ci>>

\* Lines 439-448: the batch goes to the device, the set is bound.
SubmitDescriptorWrites ==
  /\ pc = "bind"
  /\ bind.work = <<>>
  /\ calls' =
       Append(calls, [call |-> "updateDescriptorSets",
                             command |-> ci,
                             writes |-> SubmittedWrites(bind)])
  /\ cmdbuf' = Append(cmdbuf, [op |-> "bindDescriptorSets",
                               bindPoint |-> "eGraphics",
                               firstSet |-> 0,
                               sets |-> <<bind.desc_set>>])
  /\ pc' = "draw"
  /\ UNCHANGED <<target, commands, is_valid, render_pass, encoder_alive, debug_label,
                 layout, tracked, debug_stack, resolved, result, entry,
                 pop_marker, todo, framebuffer, clear_values, ci, cmd_pop_marker, bind>>

(***************************************************************************)
(* EncodeCommand after the descriptor sets (502-555).                      *)
(***************************************************************************)
PipelineStateOps(command, target_size) ==
  <<[op |-> "bindPipeline", bindPoint |-> "eGraphics"]>>
  \o SetViewportAndScissor(command, target_size)
  \o <<[op |-> "setStencilReference", faces |-> "eVkStencilFrontAndBack",
        reference |-> command.stencil_reference]>>

\* Variant: the index buffer is bound before the vertex buffer.
DrawOpsIndexBufferFirst(command, vertex_buffer_view, index_buffer_view) ==
  <<[op |-> "bindIndexBuffer", buffer |-> index_buffer_view.buffer,
     offset |-> index_buffer_view.range.offset,
     index_type |-> command.index_type],
    [op |-> "bindVertexBuffers", firstBinding |-> 0,
     buffer |-> vertex_buffer_view.buffer,
     offset |-> vertex_buffer_view.range.offset],
    [op |-> "drawIndexed",
     index_count |-> command.index_count,
     instance_count |-> command.instance_count,
     first_index |-> 0,
     vertex_offset |-> command.base_vertex,
     first_instance |-> 0]>>

DrawOps(command, vertex_buffer_view, index_buffer_view) ==
  <<[op |-> "bindVertexBuffers", firstBinding |-> 0,
     buffer |-> vertex_buffer_view.buffer,
     offset |-> vertex_buffer_view.range.offset],
    [op |-> "bindIndexBuffer", buffer |-> index_buffer_view.buffer,
     offset |-> index_buffer_view.range.offset,
     index_type |-> command.index_type],
    [op |-> "drawIndexed",
     index_count |-> command.index_count,
     instance_count |-> command.instance_count,
     first_index |-> 0,
     vertex_offset |-> command.base_vertex,
     first_instance |-> 0]>>

EncodeDraw ==
  /\ pc = "draw"
  /\ LET command == commands[ci]
         cb1 == cmdbuf \o PipelineStateOps(command, GetRenderTargetSize(target))
         vertex_buffer_view == GetVertexBuffer(command)
         index_buffer_view == command.index_buffer
         vertex_buffer == vertex_buffer_view.buffer
         index_buffer == index_buffer_view.buffer
     IN IF vertex_buffer = NoBuffer \/ index_buffer = NoBuffer
        THEN /\ ReturnFromLoop(FALSE, cb1, debug_stack)
             /\ UNCHANGED <<calls, resolved, tracked, ci>>
        ELSE \E vertex_ok \in DeviceBufferOutcomes(vertex_buffer),
                index_ok \in DeviceBufferOutcomes(index_buffer),
                track_vertex, track_index \in BOOLEAN :
               /\ calls' = calls
                    \o <<GetDeviceBufferCall(vertex_buffer, vertex_ok),
                         GetDeviceBufferCall(index_buffer, index_ok)>>
                    \o (IF vertex_ok /\ index_ok
                        THEN <<TrackCall(vertex_buffer, track_vertex)>> ELSE <<>>)
                    \o (IF vertex_ok /\ index_ok /\ track_vertex
                        THEN <<TrackCall(index_buffer, track_index)>> ELSE <<>>)
               /\ resolved' = resolved
                    \cup (IF vertex_ok THEN {vertex_buffer} ELSE {})
                    \cup (IF index_ok THEN {index_buffer} ELSE {})
               /\ IF ~vertex_ok \/ ~index_ok
                  THEN /\ ReturnFromLoop(FALSE, cb1, debug_stack)
                       /\ UNCHANGED <<tracked, ci>>
                  ELSE IF ~track_vertex
                  THEN /\ ReturnFromLoop(FALSE, cb1, debug_stack)
                       /\ UNCHANGED <<tracked, ci>>
                  ELSE IF ~track_index
                  THEN /\ tracked' = tracked \cup {vertex_buffer}
                       /\ ReturnFromLoop(FALSE, cb1, debug_stack)
                       /\ UNCHANGED ci
                  ELSE LET cb2 == cb1 \o DrawOps(command, vertex_buffer_view,
                                                 index_buffer_view)
                       IN /\ tracked' = tracked \cup {vertex_buffer, index_buffer}
                          /\ cmdbuf' = IF cmd_pop_marker
                                       THEN Append(cb2, PopDebugGroupOp) ELSE cb2
                          /\ debug_stack' = IF cmd_pop_marker
                                            THEN Front(debug_stack) ELSE debug_stack
                          /\ cmd_pop_marker' = FALSE
                          /\ ci' = ci + 1
                          /\ pc' = "commands"
                          /\ UNCHANGED <<result, pop_marker>>
  /\ UNCHANGED <<target, commands, is_valid, render_pass, encoder_alive, debug_label,
                 layout, entry, todo, framebuffer, clear_values, bind>>

Next ==
  \/ OnSetLabel
  \/ EncoderDestroyed
  \/ OnEncodeCommands
  \/ UpdateBindingLayoutsStep
  \/ ConfigureAttachmentsStep
  \/ CreateFramebufferStep
  \/ BeginRenderPassStep
  \/ CommandStep
  \/ AllocateDescriptorSet
  \/ BindResource
  \/ SubmitDescriptorWrites
  \/ EncodeDraw

Spec == Init /\ [][Next]_vars

(***************************************************************************)
(* The builders alone, over every render target.                           *)
(***************************************************************************)
InitBuilders ==
  \E t \in Targets :
    /\ target = t
    /\ commands = <<>>
    /\ render_pass = NullHandle
    /\ is_valid = FALSE
    /\ encoder_alive = TRUE
    /\ debug_label = ""
    /\ layout = [x \in AllTextures |-> "eUndefined"]
    /\ tracked = {}
    /\ cmdbuf = <<>>
    /\ debug_stack = <<>>
    /\ calls = <<>>
    /\ resolved = {}
    /\ pc = "builders"
    /\ result = FALSE
    /\ entry = NoEntry
    /\ pop_marker = FALSE
    /\ todo = <<>>
    /\ framebuffer = NullHandle
    /\ clear_values = <<>>
    /\ ci = 0
    /\ cmd_pop_marker = FALSE
    /\ bind = NoBind

BuildRenderPass ==
  /\ pc = "builders"
  /\ \E device_ok \in BOOLEAN :
       /\ render_pass' = RenderPassVK(device_ok, target).render_pass
       /\ is_valid' = RenderPassVK(device_ok, target).is_valid
       /\ pc' = IF device_ok THEN "pass_built" ELSE "pass_rejected"
  /\ UNCHANGED <<target, commands, encoder_alive, debug_label, layout, tracked,
                 cmdbuf, debug_stack, calls, resolved, result,
                 entry, pop_marker, todo, framebuffer, clear_values, ci,
                 cmd_pop_marker, bind>>

BuildFramebuffer ==
  /\ pc = "pass_built"
  /\ \E device_ok \in BOOLEAN :
       framebuffer' = CreateFramebuffer(device_ok, target, render_pass)
  /\ pc' = "framebuffer_built"
  /\ UNCHANGED <<target, commands, is_valid, render_pass, encoder_alive, debug_label,
                 layout, tracked, cmdbuf, debug_stack, calls,
                 resolved, result, entry, pop_marker, todo, clear_values, ci,
                 cmd_pop_marker, bind>>

BuildClearValues ==
  /\ pc = "framebuffer_built"
  /\ clear_values' = GetVKClearValues(target)
  /\ pc' = "clears_built"
  /\ UNCHANGED <<target, commands, is_valid, render_pass, encoder_alive, debug_label,
                 layout, tracked, cmdbuf, debug_stack, calls,
                 resolved, result, entry, pop_marker, todo, framebuffer, ci,
                 cmd_pop_marker, bind>>

NextBuilders == BuildRenderPass \/ BuildFramebuffer \/ BuildClearValues

SpecBuilders == InitBuilders /\ [][NextBuilders]_vars

(***************************************************************************)
(* What the claims speak of.                                               *)
(***************************************************************************)
ColorIndices(t) == DOMAIN t.colors
HasResolve(t, i) == t.colors[i].resolve_texture # NoTexture
NumColors(t) == Cardinality(ColorIndices(t))
NumResolves(t) == Cardinality({i \in ColorIndices(t) : HasResolve(t, i)})
NumDepth(t) == IF t.depth.present THEN 1 ELSE 0
NumStencil(t) == IF t.stencil.present THEN 1 ELSE 0

\* The place (from 1) of color i in a list that holds the colors in
\* bind-index order, each followed by its resolve if it has one.
PlaceOfColor(t, i) ==
  1 + Cardinality({j \in ColorIndices(t) : j < i})
    + Cardinality({j \in ColorIndices(t) : j < i /\ HasResolve(t, j)})

\* list holds f of: each color, its resolve, then depth, then stencil.
InAttachmentOrder(t, list, of_color, of_resolve, of_depth, of_stencil) ==
  /\ Len(list) = NumColors(t) + NumResolves(t) + NumDepth(t) + NumStencil(t)
  /\ \A i \in ColorIndices(t) :
       /\ list[PlaceOfColor(t, i)] = of_color[i]
       /\ HasResolve(t, i) => list[PlaceOfColor(t, i) + 1] = of_resolve[i]
  /\ t.depth.present => list[NumColors(t) + NumResolves(t) + 1] = of_depth
  /\ t.stencil.present =>
       list[NumColors(t) + NumResolves(t) + NumDepth(t) + 1] = of_stencil

TexturesOf(attachments) == [i \in DOMAIN attachments |-> attachments[i].texture]

\* C1: the attachment descriptions of the pass and the image views of the
\* frame buffer have the same length and the same order: colors in bind-index
\* order, each followed by its resolve, then depth, then stencil.
C1_PassAndFramebufferSameOrder ==
  (pc \in {"framebuffer_built", "clears_built"} /\ framebuffer.valid) =>
    /\ Len(render_pass.attachments) = Len(framebuffer.attachments)
    /\ TexturesOf(render_pass.attachments) = framebuffer.attachments
    /\ InAttachmentOrder(target, framebuffer.attachments,
                         [i \in ColorIndices(target) |-> target.colors[i].texture],
                         [i \in ColorIndices(target) |-> target.colors[i].resolve_texture],
                         IF target.depth.present THEN target.depth.texture ELSE NoTexture,
                         IF target.stencil.present THEN target.stencil.texture ELSE NoTexture)

IsUnused(ref) == ref.attachment = VK_ATTACHMENT_UNUSED

MaxColorBindIndex(t) ==
  IF ColorIndices(t) = {} THEN 0
  ELSE CHOOSE m \in ColorIndices(t) : \A i \in ColorIndices(t) : i <= m

\* C4: with maximum color bind index N, the color and resolve reference
\* arrays have N + 1 slots each; a slot is unused exactly when its bind index
\* has no color (no color with a resolve); a used slot holds the index at
\* which that attachment's description was appended, and the indices are
\* distinct and increase with the bind index.
C4_ReferenceArrays ==
  render_pass.valid =>
    LET sub == render_pass.subpasses[1]
        N == MaxColorBindIndex(target)
        used_color == {i \in 0 .. N : i \in ColorIndices(target)}
        used_resolve == {i \in used_color : HasResolve(target, i)}
    IN /\ Len(sub.color_refs) = N + 1
       /\ Len(sub.resolve_refs) = N + 1
       /\ \A i \in 0 .. N :
            /\ IsUnused(sub.color_refs[i + 1]) <=> i \notin used_color
            /\ IsUnused(sub.resolve_refs[i + 1]) <=> i \notin used_resolve
       /\ \A i \in used_color :
            /\ sub.color_refs[i + 1].attachment + 1 = PlaceOfColor(target, i)
            /\ render_pass.attachments[sub.color_refs[i + 1].attachment + 1] =
                 CreateAttachmentDescription(target.colors[i], "kColor", FALSE)
       /\ \A i \in used_resolve :
            /\ sub.resolve_refs[i + 1].attachment + 1 = PlaceOfColor(target, i) + 1
            /\ render_pass.attachments[sub.resolve_refs[i + 1].attachment + 1] =
                 CreateAttachmentDescription(target.colors[i], "kColor", TRUE)
       /\ \A i, j \in used_color :
            i < j => sub.color_refs[i + 1].attachment < sub.color_refs[j + 1].attachment
       /\ \A i, j \in used_resolve :
            i < j => sub.resolve_refs[i + 1].attachment < sub.resolve_refs[j + 1].attachment
       /\ \A i \in used_color, j \in used_resolve :
            sub.color_refs[i + 1].attachment # sub.resolve_refs[j + 1].attachment

\* A pass built for a target with a hole in its bind indices and a resolve.
C4_Witness ==
  /\ pc = "pass_built"
  /\ render_pass.valid
  /\ ColorIndices(target) = {0, 2}
  /\ HasResolve(target, 0)
  /\ HasResolve(target, 2)
  /\ IsUnused(render_pass.subpasses[1].color_refs[2])

\* C5: the clear values are, for each color in bind-index order, its clear
\* color, once more if it has a resolve, then the depth clear value, then the
\* stencil clear value; the length is the sum of the four counts.
C5_ClearValues ==
  pc = "clears_built" =>
    InAttachmentOrder(target, clear_values,
                      [i \in ColorIndices(target) |-> target.colors[i].clear_color],
                      [i \in ColorIndices(target) |-> target.colors[i].clear_color],
                      IF target.depth.present THEN target.depth.clear_depth ELSE NoTexture,
                      IF target.stencil.present THEN target.stencil.clear_stencil
                      ELSE NoTexture)

\* Clear values built for two colors, one with a resolve, depth and stencil.
C5_Witness ==
  /\ pc = "clears_built"
  /\ ColorIndices(target) = {0, 1}
  /\ HasResolve(target, 0)
  /\ ~HasResolve(target, 1)
  /\ target.depth.present
  /\ target.stencil.present
  /\ Len(clear_values) = 5

(***************************************************************************)
(* The encode in progress or just finished, as the histories show it.      *)
(***************************************************************************)
Recorded == SubSeq(cmdbuf, entry.len + 1, Len(cmdbuf))
CallsMade == SubSeq(calls, entry.calls + 1, Len(calls))

OpsAt(seq, name) == {i \in DOMAIN seq : seq[i].op = name}
CountOps(seq, name) == Cardinality(OpsAt(seq, name))

\* The encode passed its three checks: it always requests a layout then.
EncodeEntered == Len(calls) > entry.calls

BeganPass == CountOps(Recorded, "beginRenderPass") > 0

Encodable(command) ==
  /\ command.pipeline
  /\ command.index_count # 0
  /\ command.instance_count # 0

\* The descriptor set bound at place p of seq is the one allocated for
\* command j.
BindsSetOf(seq, p, j) ==
  /\ seq[p].op = "bindDescriptorSets"
  /\ seq[p].sets = <<(<<"descriptor_set", j>>)>>

\* Everything EncodeCommand records for command after binding its set.
FullDrawOps(command, target_size) ==
  PipelineStateOps(command, target_size)
  \o DrawOps(command, GetVertexBuffer(command), command.index_buffer)

\* C2: begin-pass was recorded and EncodeCommand failed for command ci: the
\* encode returned false, exactly one end-pass follows the begin-pass, no
\* later command is bound or drawn, and what the earlier commands recorded
\* is in the buffer, whole and in order.
C2_CommandFailure ==
  (pc = "done" /\ BeganPass /\ ci <= Len(commands)) =>
    LET k == ci
        before == {j \in 1 .. k - 1 : Encodable(commands[j])}
    IN /\ result = FALSE
       /\ CountOps(Recorded, "beginRenderPass") = 1
       /\ CountOps(Recorded, "endRenderPass") = 1
       /\ \A b \in OpsAt(Recorded, "beginRenderPass"),
             e \in OpsAt(Recorded, "endRenderPass") : b < e
       /\ \A p \in OpsAt(Recorded, "bindDescriptorSets") :
            \E j \in before \cup {k} : BindsSetOf(Recorded, p, j)
       /\ CountOps(Recorded, "drawIndexed") = Cardinality(before)
       /\ \A j \in before :
            \E p \in DOMAIN Recorded :
              /\ BindsSetOf(Recorded, p, j)
              /\ \A q \in DOMAIN Recorded : BindsSetOf(Recorded, q, j) => q = p
              /\ p + 7 <= Len(Recorded)
              /\ SubSeq(Recorded, p + 1, p + 7) =
                   FullDrawOps(commands[j], target.size)
              /\ \A e \in OpsAt(Recorded, "endRenderPass") : p + 7 < e
              /\ \A j2 \in before, p2 \in DOMAIN Recorded :
                   (j < j2 /\ BindsSetOf(Recorded, p2, j2)) => p < p2

\* The second command failed after the first was drawn.
C2_Witness ==
  /\ pc = "done"
  /\ BeganPass
  /\ Len(commands) = 2
  /\ ci = 2
  /\ Encodable(commands[1])
  /\ CountOps(Recorded, "drawIndexed") = 1
  /\ CountOps(Recorded, "endRenderPass") = 1
  /\ result = FALSE

\* The layout every attachment texture of the target is asked to take.
AttachmentLayouts(t) ==
  {<<t.colors[i].texture, "eColorAttachmentOptimal">> : i \in ColorIndices(t)}
  \cup {<<t.colors[i].resolve_texture, "eColorAttachmentOptimal">> :
          i \in {j \in ColorIndices(t) : HasResolve(t, j)}}
  \cup (IF t.depth.present
        THEN {<<t.depth.texture, "eDepthAttachmentOptimal">>} ELSE {})
  \cup (IF t.stencil.present
        THEN {<<t.stencil.texture, "eStencilAttachmentOptimal">>} ELSE {})

RequestedLayout(seq, texture, new_layout) ==
  \E i \in DOMAIN seq :
    /\ seq[i].call = "SetLayout"
    /\ seq[i].texture = texture
    /\ seq[i].new_layout = new_layout

AllCallsSucceeded(seq) == \A i \in DOMAIN seq : seq[i].ok

\* C3: a valid pass with a live encoder and a color attachment at index 0 is
\* encoded with no commands and every layout transition and tracking call
\* succeeds: the encode returns true, every attachment texture has been
\* transitioned, no framebuffer is created, and no begin-pass, end-pass or
\* draw is recorded.
C3_EmptyCommandList ==
  (/\ pc = "done"
   /\ is_valid /\ encoder_alive /\ 0 \in DOMAIN target.colors
   /\ EncodeEntered
   /\ commands = <<>>
   /\ AllCallsSucceeded(CallsMade)) =>
    /\ result = TRUE
    /\ \A a \in AttachmentLayouts(target) : RequestedLayout(CallsMade, a[1], a[2])
    /\ \A i \in DOMAIN CallsMade : CallsMade[i].call # "createFramebufferUnique"
    /\ framebuffer = NullHandle
    /\ CountOps(Recorded, "beginRenderPass") = 0
    /\ CountOps(Recorded, "endRenderPass") = 0
    /\ CountOps(Recorded, "drawIndexed") = 0

\* An empty list was encoded on a target with a resolve, a depth and a
\* stencil texture, and nothing failed.
C3_Witness ==
  /\ pc = "done"
  /\ commands = <<>>
  /\ EncodeEntered
  /\ AllCallsSucceeded(CallsMade)
  /\ result = TRUE
  /\ target.depth.present
  /\ target.stencil.present
  /\ \E i \in ColorIndices(target) : HasResolve(target, i)

SamplerWithoutTexture(bindings) ==
  \E slot \in DOMAIN bindings.samplers : slot \notin DOMAIN bindings.textures

\* The descriptor set of command ci has been written and bound: binding
\* has succeeded for that command.
BindingSucceeded ==
  /\ pc = "draw"
  /\ bind.work = <<>>

\* C6: a command that reaches the resource binder with a sampler binding, in
\* its vertex or its fragment table, that has no texture at the same slot
\* fails binding (so binding never succeeds for such a command).
C6_SamplerWithoutTextureFails ==
  BindingSucceeded =>
    /\ ~SamplerWithoutTexture(commands[ci].vertex_bindings)
    /\ ~SamplerWithoutTexture(commands[ci].fragment_bindings)

\* The part of C6 the code does enforce: the fragment table.
C6_FragmentTableOnly ==
  BindingSucceeded => ~SamplerWithoutTexture(commands[ci].fragment_bindings)

\* A command whose fragment table holds a sampler without a texture reached
\* the binder and was refused.
C6_Witness ==
  /\ pc = "done"
  /\ BeganPass
  /\ ci \in DOMAIN commands
  /\ Encodable(commands[ci])
  /\ SamplerWithoutTexture(commands[ci].fragment_bindings)
  /\ result = FALSE

\* C7: for a command without a viewport override, encoded on a target of
\* width W and height H, the viewport recorded has width W, y = H,
\* height = -H and the depth range [0, 1].
C7_DefaultViewport ==
  \A p \in OpsAt(cmdbuf, "setViewport") :
    /\ p > 2
    /\ cmdbuf[p - 2].op = "bindDescriptorSets"
    /\ \E j \in DOMAIN commands :
         /\ BindsSetOf(cmdbuf, p - 2, j)
         /\ ~commands[j].viewport.present =>
              /\ cmdbuf[p].width = target.size.width
              /\ cmdbuf[p].y = target.size.height
              /\ cmdbuf[p].height = 0 - target.size.height
              /\ cmdbuf[p].minDepth = 0
              /\ cmdbuf[p].maxDepth = 1

\* A viewport was recorded for a command without an override.
C7_Witness ==
  \E p \in OpsAt(cmdbuf, "setViewport") :
    /\ p > 2
    /\ \E j \in DOMAIN commands :
         /\ BindsSetOf(cmdbuf, p - 2, j)
         /\ ~commands[j].viewport.present
    /\ cmdbuf[p].width = target.size.width
    /\ cmdbuf[p].height = 0 - target.size.height

HasCall(seq, name) == \E i \in DOMAIN seq : seq[i].call = name

LastCallFailed(seq) == seq # <<>> /\ ~seq[Len(seq)].ok

\* The last request of this encode is one ConfigureAttachments makes: an
\* attachment layout, or the tracking of the texture just transitioned.
LastCallOfConfigureAttachments(seq) ==
  /\ seq # <<>>
  /\ \/ seq[Len(seq)].call = "Track"
     \/ /\ seq[Len(seq)].call = "SetLayout"
        /\ seq[Len(seq)].new_layout # "eShaderReadOnlyOptimal"

ConfigureAttachmentsReturnedTrue ==
  /\ EncodeEntered
  /\ \/ pc = "CreateFramebuffer"
     \/ HasCall(CallsMade, "createFramebufferUnique")
     \/ pc = "done" /\ commands = <<>> /\ result = TRUE

ConfigureAttachmentsReturnedFalse ==
  /\ pc = "done"
  /\ EncodeEntered
  /\ ~HasCall(CallsMade, "createFramebufferUnique")
  /\ LastCallOfConfigureAttachments(CallsMade)
  /\ LastCallFailed(CallsMade)

SeparateDepthAndStencil(t) ==
  /\ t.depth.present
  /\ t.stencil.present
  /\ t.depth.texture # t.stencil.texture

RequestsOn(seq, texture) ==
  {i \in DOMAIN seq : seq[i].call = "SetLayout" /\ seq[i].texture = texture}

OneRequestOn(seq, texture, new_layout) ==
  /\ Cardinality(RequestsOn(seq, texture)) = 1
  /\ \A i \in RequestsOn(seq, texture) : seq[i].new_layout = new_layout

\* C8 as stated: depth and stencil are present on two textures and
\* ConfigureAttachments has run: exactly one transition was issued on the
\* depth texture, to depth-attachment-optimal, and exactly one on the stencil
\* texture, to stencil-attachment-optimal.
C8_ExactlyOneEach ==
  (/\ SeparateDepthAndStencil(target)
   /\ ConfigureAttachmentsReturnedTrue \/ ConfigureAttachmentsReturnedFalse) =>
    /\ OneRequestOn(CallsMade, target.depth.texture, "eDepthAttachmentOptimal")
    /\ OneRequestOn(CallsMade, target.stencil.texture, "eStencilAttachmentOptimal")

\* C8 as the code has it: with depth and stencil on two textures, every
\* transition requested on the depth texture is to depth-attachment-optimal
\* and every one on the stencil texture to stencil-attachment-optimal, at
\* most one on each; there is exactly one on each once ConfigureAttachments
\* has returned true.
C8_OneEachOnSuccess ==
  SeparateDepthAndStencil(target) =>
    /\ \A i \in RequestsOn(CallsMade, target.depth.texture) :
         CallsMade[i].new_layout = "eDepthAttachmentOptimal"
    /\ \A i \in RequestsOn(CallsMade, target.stencil.texture) :
         CallsMade[i].new_layout = "eStencilAttachmentOptimal"
    /\ Cardinality(RequestsOn(CallsMade, target.depth.texture)) <= 1
    /\ Cardinality(RequestsOn(CallsMade, target.stencil.texture)) <= 1
    /\ ConfigureAttachmentsReturnedTrue =>
         /\ OneRequestOn(CallsMade, target.depth.texture,
                         "eDepthAttachmentOptimal")
         /\ OneRequestOn(CallsMade, target.stencil.texture,
                         "eStencilAttachmentOptimal")

\* ConfigureAttachments returned true on a target with depth and stencil on
\* two textures.
C8_Witness ==
  /\ SeparateDepthAndStencil(target)
  /\ ConfigureAttachmentsReturnedTrue
  /\ OneRequestOn(CallsMade, target.depth.texture, "eDepthAttachmentOptimal")
  /\ OneRequestOn(CallsMade, target.stencil.texture, "eStencilAttachmentOptimal")

\* C9: on every exit of OnEncodeCommands the debug-group stack is as deep as
\* at entry, pushes and pops recorded are equal in number, an end-pass was
\* recorded exactly when a begin-pass was, every draw lies between them, and
\* the end-pass comes before the pop of the pass-level group.
C9_BalancedOnExit ==
  pc = "done" =>
    /\ debug_stack = SubSeq(debug_stack, 1, entry.depth)
    /\ Len(debug_stack) = entry.depth
    /\ CountOps(Recorded, "pushDebugGroup") = CountOps(Recorded, "popDebugGroup")
    /\ CountOps(Recorded, "beginRenderPass") = CountOps(Recorded, "endRenderPass")
    /\ CountOps(Recorded, "beginRenderPass") <= 1
    /\ \A b \in OpsAt(Recorded, "beginRenderPass"),
          e \in OpsAt(Recorded, "endRenderPass") : b < e
    /\ \A d \in OpsAt(Recorded, "drawIndexed") :
         /\ \E b \in OpsAt(Recorded, "beginRenderPass") : b < d
         /\ \E e \in OpsAt(Recorded, "endRenderPass") : d < e
    /\ (EncodeEntered /\ debug_label # "") =>
         /\ Recorded # <<>>
         /\ Recorded[1] = PushDebugGroupOp(debug_label)
         /\ Recorded[Len(Recorded)] = PopDebugGroupOp
         /\ \A e \in OpsAt(Recorded, "endRenderPass") : e < Len(Recorded)
         /\ \A q \in OpsAt(Recorded, "popDebugGroup") :
              \A e \in OpsAt(Recorded, "endRenderPass") :
                 q > e => q = Len(Recorded)

\* A labelled pass returned false from inside a labelled command: two groups
\* were pushed and popped around one begin-pass and one end-pass.
C9_Witness ==
  /\ pc = "done"
  /\ result = FALSE
  /\ debug_label # ""
  /\ CountOps(Recorded, "pushDebugGroup") = 2
  /\ CountOps(Recorded, "popDebugGroup") = 2
  /\ CountOps(Recorded, "beginRenderPass") = 1
  /\ CountOps(Recorded, "endRenderPass") = 1
  /\ Len(debug_stack) = entry.depth

\* C10: an encode of a pass that is invalid, or whose target has no color
\* attachment at index 0, or whose encoder is gone, returns false and leaves
\* the command buffer, the texture layouts, the tracked set and the debug
\* stack as they were; and an invalid pass stays invalid.
C10_RefusedEncode ==
  [][/\ (/\ OnEncodeCommands
         /\ ~is_valid \/ 0 \notin DOMAIN target.colors \/ ~encoder_alive) =>
          /\ result' = FALSE
          /\ pc' = "done"
          /\ UNCHANGED <<cmdbuf, layout, tracked, debug_stack, calls>>
     /\ ~is_valid => ~is_valid']_vars

\* A pass whose encoder went away after a first encode was encoded again:
\* false, with what the first encode recorded untouched.
C10_Witness ==
  /\ pc = "done"
  /\ ~encoder_alive
  /\ result = FALSE
  /\ cmdbuf # <<>>
  /\ entry.len = Len(cmdbuf)
  /\ entry.calls = Len(calls)

\* An invalid pass was refused.
C10_WitnessInvalid ==
  /\ pc = "done"
  /\ ~is_valid
  /\ result = FALSE
  /\ cmdbuf = <<>>
  /\ calls = <<>>

(***************************************************************************)
(* Resources the recorded operations and the submitted writes refer to.    *)
(***************************************************************************)
ResourcesOfOp(o) ==
  IF o.op = "beginRenderPass" THEN {FramebufferResource, RenderPassResource}
  ELSE IF o.op = "pipelineBarrier" THEN {o.texture}
  ELSE IF o.op \in {"bindVertexBuffers", "bindIndexBuffer"} THEN {o.buffer}
  ELSE {}

ResourcesOfWrite(w) ==
  IF w.descriptorType = "eUniformBuffer" THEN {w.info.buffer}
  ELSE {w.info.imageView, w.info.sampler}

ResourcesOfCall(c) ==
  IF c.call = "updateDescriptorSets"
  THEN UNION {ResourcesOfWrite(c.writes[i]) : i \in DOMAIN c.writes}
  ELSE {}

BarrierTextures(seq) ==
  {seq[i].texture : i \in OpsAt(seq, "pipelineBarrier")}

AttachmentTextures(t) == {a[1] : a \in AttachmentLayouts(t)}

ReferencedResources ==
  UNION {ResourcesOfOp(Recorded[i]) : i \in DOMAIN Recorded}
  \cup UNION {ResourcesOfCall(CallsMade[i]) : i \in DOMAIN CallsMade}
  \cup AttachmentTextures(target)

\* An encode has returned true (on a frame buffer the device did create, if
\* a pass was begun).
EncodeReturnedTrue ==
  /\ pc = "done"
  /\ result = TRUE
  /\ EncodeEntered
  /\ BeganPass => framebuffer.valid

\* C11: after an encode that returns true, every resource an operation
\* recorded during it refers to is in the tracked set: frame buffer and pass,
\* attachment textures, uniform, vertex and index buffers, sampled textures
\* and samplers written into a descriptor set, and every texture a layout
\* barrier was recorded for.
C11_AllReferencedTracked ==
  EncodeReturnedTrue => ReferencedResources \subseteq tracked

\* What the code does track: everything but the textures that only
\* UpdateBindingLayouts touched.
C11_AllButBarrierOnlyTracked ==
  EncodeReturnedTrue =>
    \A r \in ReferencedResources \ tracked :
      /\ r \in BarrierTextures(Recorded)
      /\ r \notin AttachmentTextures(target)
      /\ \A i \in DOMAIN CallsMade : r \notin ResourcesOfCall(CallsMade[i])

\* An encode returned true after recording a barrier for a texture bound
\* without a sampler, and drawing.
C11_Witness ==
  /\ EncodeReturnedTrue
  /\ CountOps(Recorded, "drawIndexed") > 0
  /\ SampledTexture \in BarrierTextures(Recorded)
  /\ SampledTexture \notin tracked

\* AllocateAndBindDescriptorSets is running for command ci.
InResourceBinder == pc \in {"AllocateDescriptorSet", "bind"}

CountCalls(seq, name) ==
  Cardinality({i \in DOMAIN seq : seq[i].call = name})

\* C12: when AllocateAndBindDescriptorSets fails for a command (allocation,
\* device buffer, Track, sampler without texture), no descriptor write of
\* that command is submitted (updateDescriptorSets is not called, whatever
\* was gathered) and no descriptor set is bound for it.
C12_NoPartialBinding ==
  [][(InResourceBinder /\ pc' = "done") =>
       /\ result' = FALSE
       /\ CountCalls(calls', "updateDescriptorSets") =
            CountCalls(calls, "updateDescriptorSets")
       /\ CountOps(cmdbuf', "bindDescriptorSets") =
            CountOps(cmdbuf, "bindDescriptorSets")
       /\ \A i \in DOMAIN calls' :
            calls'[i].call = "updateDescriptorSets" => calls'[i].command # ci
       /\ \A p \in DOMAIN cmdbuf' : ~BindsSetOf(cmdbuf', p, ci)
       /\ CountCalls(calls', "updateDescriptorSets") =
            Cardinality({j \in 1 .. ci - 1 : Encodable(commands[j])})]_vars

\* The binder failed for a command after gathering writes: none was
\* submitted and its set was not bound.
C12_Witness ==
  /\ pc = "done"
  /\ result = FALSE
  /\ BeganPass
  /\ ci \in DOMAIN commands
  /\ bind.desc_set = <<"descriptor_set", ci>>
  /\ bind.work # <<>>
  /\ bind.writes # <<>>
  /\ \A i \in DOMAIN calls :
       calls[i].call = "updateDescriptorSets" => calls[i].command # ci
  /\ \A p \in DOMAIN cmdbuf : ~BindsSetOf(cmdbuf, p, ci)

FailedSetLayout(seq) ==
  \E i \in DOMAIN seq : seq[i].call = "SetLayout" /\ ~seq[i].ok

\* C13: when a SetLayout call of UpdateBindingLayouts or ConfigureAttachments
\* returns false, the encode returns false and no part of a pass is emitted:
\* no frame buffer is created and no begin-pass, end-pass, descriptor-set
\* bind or draw is recorded.
C13_NoPartialPass ==
  FailedSetLayout(CallsMade) =>
    /\ pc = "done"
    /\ result = FALSE
    /\ ~HasCall(CallsMade, "createFramebufferUnique")
    /\ framebuffer = NullHandle
    /\ CountOps(Recorded, "beginRenderPass") = 0
    /\ CountOps(Recorded, "endRenderPass") = 0
    /\ CountOps(Recorded, "bindDescriptorSets") = 0
    /\ CountOps(Recorded, "drawIndexed") = 0

\* The depth transition failed after the binding and color transitions had
\* recorded their barriers, with a command queued.
C13_Witness ==
  /\ pc = "done"
  /\ result = FALSE
  /\ commands # <<>>
  /\ CallsMade # <<>>
  /\ CallsMade[Len(CallsMade)].call = "SetLayout"
  /\ CallsMade[Len(CallsMade)].new_layout = "eDepthAttachmentOptimal"
  /\ ~CallsMade[Len(CallsMade)].ok
  /\ \E i \in DOMAIN CallsMade :
       CallsMade[i].call = "SetLayout" /\ CallsMade[i].ok
         /\ CallsMade[i].new_layout = "eShaderReadOnlyOptimal"
  /\ CountOps(Recorded, "pipelineBarrier") > 1
  /\ CountOps(Recorded, "beginRenderPass") = 0

FramebufferRejected ==
  \E i \in DOMAIN CallsMade :
    CallsMade[i].call = "createFramebufferUnique" /\ ~CallsMade[i].ok

\* C14: when the device rejects the frame buffer of an encode with at least
\* one command, the encode is aborted: it returns false, the invalid frame
\* buffer is never used in a begin-pass, and no begin-pass or draw is
\* recorded.
C14_RejectedFramebufferAborts ==
  FramebufferRejected =>
    /\ pc = "done"
    /\ result = FALSE
    /\ \A b \in OpsAt(Recorded, "beginRenderPass") : Recorded[b].framebuffer.valid
    /\ CountOps(Recorded, "beginRenderPass") = 0
    /\ CountOps(Recorded, "drawIndexed") = 0

\* The rejected frame buffer was handed to begin-pass and a draw followed.
C14_Witness ==
  /\ FramebufferRejected
  /\ \E b \in OpsAt(Recorded, "beginRenderPass") : ~Recorded[b].framebuffer.valid
  /\ CountOps(Recorded, "drawIndexed") > 0
  /\ pc = "done"
  /\ result = TRUE

\* The command loop is at a command it skips.
AtSkippedCommand ==
  /\ pc = "commands"
  /\ ci \in DOMAIN commands
  /\ ~Encodable(commands[ci])

C15_WitnessOnlySkipped ==
  /\ EncodeReturnedTrue
  /\ Len(commands) = 2
  /\ \A j \in DOMAIN commands : ~Encodable(commands[j])
  /\ commands[1] # commands[2]
  /\ CountOps(Recorded, "beginRenderPass") = 1
  /\ CountOps(Recorded, "endRenderPass") = 1

ShaderReadRequests(seq) ==
  {i \in DOMAIN seq : /\ seq[i].call = "SetLayout"
                      /\ seq[i].new_layout = "eShaderReadOnlyOptimal"}

AttachmentRequests(seq) ==
  {i \in DOMAIN seq : /\ seq[i].call = "SetLayout"
                      /\ seq[i].new_layout # "eShaderReadOnlyOptimal"}

\* Every texture binding of every queued command: command, table, slot.
BindingTextureSlots ==
  {x \in (DOMAIN commands) \X {"vertex"} \X (0 .. MaxBindIndex) :
     x[3] \in DOMAIN commands[x[1]].vertex_bindings.textures}
  \cup
  {x \in (DOMAIN commands) \X {"fragment"} \X (0 .. MaxBindIndex) :
     x[3] \in DOMAIN commands[x[1]].fragment_bindings.textures}

TextureAtSlot(x) ==
  IF x[2] = "vertex" THEN commands[x[1]].vertex_bindings.textures[x[3]]
  ELSE commands[x[1]].fragment_bindings.textures[x[3]]

\* C16: in every encode the shader-read transitions of all textures of the
\* vertex and fragment tables of all queued commands are issued before the
\* first attachment transition, every attachment transition before
\* begin-pass, and none between begin-pass and end-pass.
C16_TransitionOrder ==
  /\ [](LET sr == ShaderReadRequests(CallsMade)
            at == AttachmentRequests(CallsMade)
        IN /\ \A i \in sr, j \in at : i < j
           /\ at # {} =>
                /\ Cardinality(sr) = Cardinality(BindingTextureSlots)
                /\ {CallsMade[i].texture : i \in sr} =
                     {TextureAtSlot(x) : x \in BindingTextureSlots}
                /\ \A i \in sr : CallsMade[i].ok
           /\ \A i \in sr \cup at, j \in DOMAIN CallsMade :
                CallsMade[j].call = "createFramebufferUnique" => i < j
           /\ \A b \in OpsAt(Recorded, "beginRenderPass"),
                 p \in OpsAt(Recorded, "pipelineBarrier") : p < b
           /\ BeganPass =>
                \A a \in AttachmentLayouts(target) :
                  \E i \in at : /\ CallsMade[i].texture = a[1]
                                /\ CallsMade[i].new_layout = a[2]
                                /\ CallsMade[i].ok)
  /\ [][BeganPass =>
          /\ layout' = layout
          /\ CountCalls(calls', "SetLayout") = CountCalls(calls, "SetLayout")
          /\ CountOps(cmdbuf', "pipelineBarrier") =
               CountOps(cmdbuf, "pipelineBarrier")]_vars

\* A pass was begun and drawn after shader-read transitions of a vertex-table
\* texture and of a fragment-table texture, then attachment transitions.
C16_Witness ==
  /\ BeganPass
  /\ CountOps(Recorded, "drawIndexed") > 0
  /\ \E x \in BindingTextureSlots : x[2] = "vertex"
  /\ \E x \in BindingTextureSlots : x[2] = "fragment"
  /\ Cardinality(ShaderReadRequests(CallsMade)) = Cardinality(BindingTextureSlots)
  /\ Cardinality(AttachmentRequests(CallsMade)) = 3

DepthStencilDescriptions(pass) ==
  {i \in DOMAIN pass.attachments : pass.attachments[i].kind \in {"kDepth", "kStencil"}}

\* C17: CreateVKRenderPass appends at most one depth-stencil description and
\* sets one depth-stencil reference: the depth attachment's if depth is
\* present (with or without stencil), else the stencil attachment's if
\* stencil is present, else none and the reference stays unused; and one
\* subpass, bound for graphics, is declared.
C17_OneDepthStencilSlot ==
  render_pass.valid =>
    LET atts == render_pass.attachments
        nc == NumColors(target) + NumResolves(target)
        ref == render_pass.subpasses[1].depth_stencil_ref
    IN /\ Len(render_pass.subpasses) = 1
       /\ render_pass.subpasses[1].pipelineBindPoint = "eGraphics"
       /\ Cardinality(DepthStencilDescriptions(render_pass)) <= 1
       /\ target.depth.present =>
            /\ Len(atts) = nc + 1
            /\ atts[nc + 1] =
                 CreateAttachmentDescription(target.depth, "kDepth", FALSE)
            /\ ref.attachment = nc
            /\ ref.layout = "eDepthStencilAttachmentOptimal"
       /\ (~target.depth.present /\ target.stencil.present) =>
            /\ Len(atts) = nc + 1
            /\ atts[nc + 1] =
                 CreateAttachmentDescription(target.stencil, "kStencil", FALSE)
            /\ ref.attachment = nc
            /\ ref.layout = "eDepthStencilAttachmentOptimal"
       /\ (~target.depth.present /\ ~target.stencil.present) =>
            /\ Len(atts) = nc
            /\ ref = kUnusedAttachmentReference
            /\ IsUnused(ref)

\* A pass built for a target with depth and stencil on two textures: the one
\* depth-stencil description is the depth attachment's.
C17_Witness ==
  /\ pc = "pass_built"
  /\ render_pass.valid
  /\ SeparateDepthAndStencil(target)
  /\ NumColors(target) = 2
  /\ Cardinality(DepthStencilDescriptions(render_pass)) = 1
  /\ \A i \in DepthStencilDescriptions(render_pass) :
       render_pass.attachments[i].texture = target.depth.texture

\* The clear value the target gives the attachment a description describes.
ClearValueOfDescription(t, d) ==
  IF d.kind = "kDepth" THEN t.depth.clear_depth
  ELSE IF d.kind = "kStencil" THEN t.stencil.clear_stencil
  ELSE LET i == CHOOSE j \in ColorIndices(t) :
                  IF d.resolve THEN t.colors[j].resolve_texture = d.texture
                  ELSE t.colors[j].texture = d.texture
       IN t.colors[i].clear_color

ClearValuesMatchPass(t, pass, clears) ==
  /\ Len(clears) = Len(pass.attachments)
  /\ \A i \in DOMAIN pass.attachments :
       /\ i \in DOMAIN clears
       /\ clears[i] = ClearValueOfDescription(t, pass.attachments[i])

\* C18: the clear values handed to begin-pass match the attachment list of
\* the pass: one clear value per attachment description, the i-th for the
\* attachment described at index i.
C18_ClearValuesMatchPass ==
  (pc = "clears_built" /\ render_pass.valid) =>
    ClearValuesMatchPass(target, render_pass, clear_values)

\* They do match unless depth and stencil are both present.
C18_MatchUnlessDepthAndStencil ==
  (pc = "clears_built" /\ render_pass.valid
     /\ ~(target.depth.present /\ target.stencil.present)) =>
    ClearValuesMatchPass(target, render_pass, clear_values)

\* Clear values built for a target with depth and stencil: one more than the
\* pass has attachment descriptions.
C18_Witness ==
  /\ pc = "clears_built"
  /\ render_pass.valid
  /\ target.depth.present
  /\ target.stencil.present
  /\ 0 \in ColorIndices(target)
  /\ Len(clear_values) = Len(render_pass.attachments) + 1

SharedDepthStencilTexture(t) ==
  /\ t.depth.present
  /\ t.stencil.present
  /\ t.depth.texture = t.stencil.texture

\* C19: once ConfigureAttachments has succeeded, the recorded layout of every
\* attachment texture is its own attachment layout: color for colors and
\* resolves, depth for the depth attachment's texture, stencil for the
\* stencil attachment's texture, also when depth and stencil share a texture.
C19_AttachmentLayouts ==
  ConfigureAttachmentsReturnedTrue =>
    \A a \in AttachmentLayouts(target) : layout[a[1]] = a[2]

\* It is so unless depth and stencil share one texture.
C19_UnlessSharedTexture ==
  (ConfigureAttachmentsReturnedTrue /\ ~SharedDepthStencilTexture(target)) =>
    \A a \in AttachmentLayouts(target) : layout[a[1]] = a[2]

\* A pass was begun on a target whose depth and stencil share a texture: its
\* recorded layout is the stencil layout, not the depth layout.
C19_Witness ==
  /\ BeganPass
  /\ SharedDepthStencilTexture(target)
  /\ layout[target.depth.texture] = "eStencilAttachmentOptimal"
  /\ \A i \in ColorIndices(target) :
       layout[target.colors[i].texture] = "eColorAttachmentOptimal"

\* The combined image+sampler writes bind_images has recorded for the
\* command being bound.
ImageWrites ==
  IF pc \in {"bind", "draw"}
  THEN {i \in DOMAIN bind.writes :
          bind.writes[i].descriptorType = "eCombinedImageSampler"}
  ELSE {}

TextureOfWrite(i) ==
  StageBindings(commands[ci], bind.writes[i].source.stage)
    .textures[bind.writes[i].source.index]

\* C20: whenever a combined image+sampler write declaring
\* shader-read-only-optimal is recorded for a texture, the recorded layout of
\* that texture is shader-read-only-optimal, also when the texture is an
\* attachment of the target.
C20_SampledLayout ==
  \A i \in ImageWrites :
    bind.images[bind.writes[i].dstBinding].imageLayout = "eShaderReadOnlyOptimal"
      => layout[TextureOfWrite(i)] = "eShaderReadOnlyOptimal"

\* It is so for a texture that is no attachment of the target.
C20_UnlessAttachment ==
  \A i \in ImageWrites :
    TextureOfWrite(i) \notin AttachmentTextures(target) =>
      /\ bind.images[bind.writes[i].dstBinding].imageLayout =
           "eShaderReadOnlyOptimal"
      /\ layout[TextureOfWrite(i)] = "eShaderReadOnlyOptimal"

\* A write was recorded for a sampled texture that is color attachment 0:
\* its recorded layout is the color attachment layout.
C20_Witness ==
  /\ pc = "draw"
  /\ \E i \in ImageWrites :
       /\ TextureOfWrite(i) = target.colors[0].texture
       /\ bind.images[bind.writes[i].dstBinding].imageLayout =
            "eShaderReadOnlyOptimal"
       /\ layout[TextureOfWrite(i)] = "eColorAttachmentOptimal"

(***************************************************************************)
(* The operations of the commands of a pass, in command-list order.        *)
(***************************************************************************)
OpNames(seq) == [i \in DOMAIN seq |-> seq[i].op]

HasLabel(command) == command.label # ""

\* The names of the operations one encodable command records.
CommandOpNames(command) ==
  (IF HasLabel(command) THEN <<"pushDebugGroup">> ELSE <<>>)
  \o <<"bindDescriptorSets", "bindPipeline", "setViewport", "setScissor",
       "setStencilReference", "bindVertexBuffers", "bindIndexBuffer",
       "drawIndexed">>
  \o (IF HasLabel(command) THEN <<"popDebugGroup">> ELSE <<>>)

\* The names of the operations the first n commands of cmds record.
RECURSIVE OpNamesOfCommands(_, _)
OpNamesOfCommands(cmds, n) ==
  IF n = 0 THEN <<>>
  ELSE OpNamesOfCommands(cmds, n - 1)
       \o (IF Encodable(cmds[n]) THEN CommandOpNames(cmds[n]) ELSE <<>>)

BeginPlace == CHOOSE b \in OpsAt(Recorded, "beginRenderPass") : TRUE

\* Where the operations of the pass end: at its end-pass once the encode has
\* returned (the pop of the pass's own debug group comes after it).
EndPlace ==
  IF pc = "done"
  THEN CHOOSE e \in OpsAt(Recorded, "endRenderPass") : TRUE
  ELSE Len(Recorded)

\* The commands EncodeCommand has returned true for, or been skipped for.
CommandsEncoded == IF pc = "done" THEN Len(commands) ELSE ci - 1

\* Between two commands of a pass, or after an encode that returned true.
CommandsEncodedSoFar ==
  /\ BeganPass
  /\ \/ pc = "commands"
     \/ pc = "done" /\ result = TRUE

\* C21: the operations recorded between begin-pass and end-pass are those of
\* the encodable commands, in command-list order and nothing else, so one
\* indexed draw per such command; each command records,
\* once each and in this order, a debug-group push (if it has a label), the
\* bind of its descriptor set at set index 0, pipeline bind, viewport,
\* scissor, stencil reference, vertex-buffer bind at the view's offset,
\* index-buffer bind at its offset, one indexed draw with the command's
\* index count, instance count and base vertex and with first index and
\* first instance 0, and a debug-group pop (if it has a label).
C21_CommandOperations ==
  CommandsEncodedSoFar =>
    LET n == CommandsEncoded
        after == SubSeq(Recorded, BeginPlace + 1, EndPlace)
    IN /\ OpNames(after) =
            OpNamesOfCommands(commands, n)
            \o (IF pc = "done" THEN <<"endRenderPass">> ELSE <<>>)
       /\ \A j \in 1 .. n :
            Encodable(commands[j]) =>
              LET command == commands[j]
                  s == Len(OpNamesOfCommands(commands, j - 1))
                       + (IF HasLabel(command) THEN 1 ELSE 0)
              IN /\ HasLabel(command) => after[s].label = command.label
                 /\ after[s + 1].firstSet = 0
                 /\ after[s + 1].sets = <<(<<"descriptor_set", j>>)>>
                 /\ after[s + 5].reference = command.stencil_reference
                 /\ after[s + 6].buffer = GetVertexBuffer(command).buffer
                 /\ after[s + 6].offset = GetVertexBuffer(command).range.offset
                 /\ after[s + 7].buffer = command.index_buffer.buffer
                 /\ after[s + 7].offset = command.index_buffer.range.offset
                 /\ after[s + 8].index_count = command.index_count
                 /\ after[s + 8].instance_count = command.instance_count
                 /\ after[s + 8].vertex_offset = command.base_vertex
                 /\ after[s + 8].first_index = 0
                 /\ after[s + 8].first_instance = 0

\* An encode of two drawable commands, one of them without a label, has
\* returned true: two indexed draws are in the buffer.
C21_Witness ==
  /\ pc = "done"
  /\ result = TRUE
  /\ BeganPass
  /\ Len(commands) = 2
  /\ \A j \in 1 .. 2 : Encodable(commands[j])
  /\ \E j \in 1 .. 2 : ~HasLabel(commands[j])
  /\ CountOps(Recorded, "drawIndexed") = 2

(***************************************************************************)
(* The viewport and scissor recorded for a command.                        *)
(***************************************************************************)
\* The places of Recorded where the viewport of command j is set: two after
\* the bind of its descriptor set.
ViewportPlaces(j) ==
  {p \in OpsAt(Recorded, "setViewport") :
     p > 2 /\ BindsSetOf(Recorded, p - 2, j)}

ScissorAsClaimed(command, sc) ==
  LET r == IF command.scissor.present THEN command.scissor.rect
           ELSE [origin |-> [x |-> 0, y |-> 0], size |-> target.size]
  IN /\ sc.op = "setScissor"
     /\ sc.offset = r.origin
     /\ sc.extent = r.size

\* C22: for a command whose viewport override has origin (x, y) and size
\* (w, h), the viewport recorded has x-origin x, width w, height -h and
\* y-origin y + h; the scissor recorded is the command's scissor rectangle
\* if given, else the full target rectangle at origin (0, 0).
C22_ViewportOverride ==
  \A j \in DOMAIN commands : \A p \in ViewportPlaces(j) :
    /\ commands[j].viewport.present =>
         LET r == commands[j].viewport.rect
         IN /\ Recorded[p].x = r.origin.x
            /\ Recorded[p].width = r.size.width
            /\ Recorded[p].height = 0 - r.size.height
            /\ Recorded[p].y = r.origin.y + r.size.height
    /\ p < Len(Recorded)
    /\ ScissorAsClaimed(commands[j], Recorded[p + 1])

\* What does hold: the size of the override is recorded, flipped, and the
\* scissor is as stated; the origin of the override is not looked at.
C22_SizeAndScissor ==
  \A j \in DOMAIN commands : \A p \in ViewportPlaces(j) :
    /\ commands[j].viewport.present =>
         LET r == commands[j].viewport.rect
         IN /\ Recorded[p].x = 0
            /\ Recorded[p].width = r.size.width
            /\ Recorded[p].height = 0 - r.size.height
            /\ Recorded[p].y = r.size.height
    /\ p < Len(Recorded)
    /\ ScissorAsClaimed(commands[j], Recorded[p + 1])

\* A viewport was recorded for an override whose origin is not (0, 0): its
\* x-origin is 0 and its y-origin is the height of the override.
C22_Witness ==
  \E j \in DOMAIN commands : \E p \in ViewportPlaces(j) :
    /\ commands[j].viewport.present
    /\ commands[j].viewport.rect.origin.x # 0
    /\ commands[j].viewport.rect.origin.y # 0
    /\ Recorded[p].x = 0
    /\ Recorded[p].y = commands[j].viewport.rect.size.height

\* A scissor was recorded for a command with a scissor rectangle of its own.
C22_WitnessScissor ==
  \E j \in DOMAIN commands : \E p \in ViewportPlaces(j) :
    /\ commands[j].scissor.present
    /\ p < Len(Recorded)
    /\ Recorded[p + 1].offset = commands[j].scissor.rect.origin

(***************************************************************************)
(* The write batches handed to the device.                                 *)
(***************************************************************************)
WriteBatches ==
  {i \in DOMAIN CallsMade : CallsMade[i].call = "updateDescriptorSets"}

\* What the binding that produced write w holds.
InfoOfSource(command, w) ==
  LET bindings == StageBindings(command, w.source.stage)
  IN IF w.descriptorType = "eUniformBuffer"
     THEN LET view == bindings.buffers[w.source.index]
          IN [buffer |-> view.buffer,
              offset |-> view.range.offset,
              range |-> view.range.length]
     ELSE [imageLayout |-> "eShaderReadOnlyOptimal",
           sampler |-> bindings.samplers[w.source.index],
           imageView |-> bindings.textures[w.source.index]]

CarriesOwnResource(command, w) == w.info = InfoOfSource(command, w)

\* Another write of the batch, of the same kind, declares the slot of write k.
SlotShared(writes, k) ==
  \E m \in DOMAIN writes :
    /\ m # k
    /\ writes[m].descriptorType = writes[k].descriptorType
    /\ writes[m].dstBinding = writes[k].dstBinding

\* C23: in every write batch submitted for a command, each write carries the
\* resource of the binding that produced it (buffer, offset and range, or
\* image view and sampler), also when two bindings declare the same slot.
C23_WritesCarryOwnResource ==
  \A i \in WriteBatches :
    \A k \in DOMAIN CallsMade[i].writes :
      CarriesOwnResource(commands[CallsMade[i].command], CallsMade[i].writes[k])

\* It is so for every write whose slot no other write of the batch declares,
\* and for the last write of each slot.
C23_UnlessSlotShared ==
  \A i \in WriteBatches :
    LET writes == CallsMade[i].writes
    IN \A k \in DOMAIN writes :
         (~SlotShared(writes, k)
          \/ \A m \in DOMAIN writes :
               (m > k /\ writes[m].descriptorType = writes[k].descriptorType)
                 => writes[m].dstBinding # writes[k].dstBinding)
           => CarriesOwnResource(commands[CallsMade[i].command], writes[k])

\* A batch was submitted in which the vertex and the fragment uniform declare
\* the same slot: the write of the vertex uniform carries the fragment
\* uniform's buffer.
C23_Witness ==
  \E i \in WriteBatches :
    LET writes == CallsMade[i].writes
    IN \E k, m \in DOMAIN writes :
         /\ k < m
         /\ writes[k].source.stage = "vertex"
         /\ writes[m].source.stage = "fragment"
         /\ writes[k].descriptorType = "eUniformBuffer"
         /\ writes[m].descriptorType = "eUniformBuffer"
         /\ writes[k].dstBinding = writes[m].dstBinding
         /\ writes[k].info.buffer = FragmentUniformView.buffer
         /\ writes[k].info.buffer # VertexUniformView.buffer

\* A batch was submitted in which no two writes share a slot, with a buffer
\* write and an image write.
C23_WitnessDistinctSlots ==
  \E i \in WriteBatches :
    LET writes == CallsMade[i].writes
    IN /\ \A k \in DOMAIN writes : ~SlotShared(writes, k)
       /\ \E k \in DOMAIN writes : writes[k].descriptorType = "eUniformBuffer"
       /\ \E k \in DOMAIN writes :
            writes[k].descriptorType = "eCombinedImageSampler"

====
